---------------------------- MODULE Spec2Model ----------------------------
(***************************************************************************)
(* WinReg: C++ wrappers around the Windows Registry API.                   *)
(*                                                                         *)
(*   RegValue  the variant value (WinReg.hpp)                              *)
(*   RegKey    the owning wrapper of a raw HKEY (WinReg.hpp)               *)
(*   SetValue / QueryValue / DeleteValue and their Read*/Write* helpers    *)
(*             (WinReg.cpp), over a registry that holds, for every value   *)
(*             name, a type tag and a sequence of bytes.                   *)
(*                                                                         *)
(* DWORD is modelled at width DwordBits and size_t at width DwordBits in   *)
(* a 32-bit build and 2 * DwordBits in a 64-bit build; every length and    *)
(* index is computed modulo the width of the type the code computes it in. *)
(***************************************************************************)
EXTENDS Integers, Sequences, FiniteSets, TLC

VARIABLES
    build,      \* "Win64" or "Win32": which branch of #ifdef _WIN64 is compiled
    val,        \* the program's RegValue object
    acc,        \* what the last RegValue operation did
    ref,        \* the reference into the RegValue the program keeps from a
                \* non-const accessor (DWORD&, std::wstring&, ...), if any
    store,      \* the registry values under the open key: name -> entry
    written,    \* name -> the RegValue SetValue stored there, while nobody else wrote
    res,        \* what the last registry function call did
    m_hKey,     \* RegKey wrapper -> wrapped raw handle (0 is nullptr)
    life,       \* RegKey wrapper -> "unborn", "live" or "dead"
    closes,     \* raw handle -> number of ::RegCloseKey calls on it
    holder,     \* raw handle -> "store" (not handed out yet), "wrapper" (taken
                \* into ownership by a RegKey) or "caller" (returned by Detach)
    last,       \* what the last RegKey operation did
    exists,     \* whether the test key exists under HKEY_CURRENT_USER
    subkeys,    \* the names of the subkeys of the test key
    values,     \* the values of the test key: name -> entry
    hkey,       \* the program's handle on the test key: "none", "open", or
                \* "stale" once the key it was opened on is deleted
    fres        \* what the last call of a function on the test key did

vars == << build, val, acc, ref, store, written, res,
           m_hKey, life, closes, holder, last,
           exists, subkeys, values, hkey, fres >>

valueVars == << val, acc >>
regVars   == << store, written, res >>
keyVars   == << m_hKey, life, closes, holder, last >>
nodeVars  == << exists, subkeys, values, hkey, fres >>

\* What the operations on one class leave alone
notValueVars == << build, ref, regVars, keyVars, nodeVars >>
notRefVars   == << build, regVars, keyVars, nodeVars >>
notRegVars   == << build, valueVars, ref, keyVars, nodeVars >>
notKeyVars   == << build, valueVars, ref, regVars, nodeVars >>
notNodeVars  == << build, valueVars, ref, regVars, keyVars >>

-----------------------------------------------------------------------------
(* Bounds of the model *)

DwordBits    == 8       \* modelled width of DWORD
MaxStrLen    == 1       \* longest enumerated std::wstring
MaxListLen   == 2       \* longest enumerated std::vector<std::wstring>
MaxBlobLen   == 2       \* longest enumerated std::vector<BYTE>
MaxRawUnits  == 3       \* longest data another program leaves in an entry, in wchar_ts
NKeys        == 2       \* RegKey objects the program creates
NHandles     == 2       \* raw handles the registry hands out
MaxCloses    == 1       \* ::RegCloseKey calls on a handle after which Attach(Get()) is left out

(* Program constants *)

REG_NONE      == 0
REG_SZ        == 1
REG_EXPAND_SZ == 2
REG_BINARY    == 3
REG_DWORD     == 4
REG_MULTI_SZ  == 7
REG_QWORD     == 11     \* a type the switch statements do not handle

SizeofWchar   == 2
SizeofDword   == 4

ERROR_SUCCESS        == 0
ERROR_FILE_NOT_FOUND == 2
ERROR_ACCESS_DENIED  == 5
ERROR_MORE_DATA      == 234

DWORD_MAX == 2^DwordBits - 1

SizeTBits(b) == IF b = "Win64" THEN 2 * DwordBits ELSE DwordBits

Builds == {"Win64", "Win32"}

Min(a, b) == IF a < b THEN a ELSE b

-----------------------------------------------------------------------------
(* Text units, bytes and the values the program builds *)

Units == {0, 258}           \* L'\0' and a unit whose two bytes differ
ByteVals == {0, 255}

RECURSIVE SeqsUpTo(_, _)
SeqsUpTo(S, n) ==
    IF n = 0 THEN {<< >>}
    ELSE LET shorter == SeqsUpTo(S, n - 1)
         IN  shorter \cup {Append(s, x) : s \in {t \in shorter : Len(t) = n - 1}, x \in S}

Repeat(x, n) == [i \in 1..n |-> x]

Strings == SeqsUpTo(Units, MaxStrLen)

\* L"Ciao", L"Hi", L"Connie" of the test program
Ciao   == << 67, 105, 97, 111 >>
Hi     == << 72, 105 >>
Connie == << 67, 111, 110, 110, 105, 101 >>

\* Strings whose byte length is around the largest DWORD
LongStrings == {Repeat(65, n) : n \in (2^(DwordBits - 1) - 3)..(2^(DwordBits - 1) - 1)}

StringInputs == Strings \cup {Ciao} \cup LongStrings

\* The strings of the enumerated lists: empty, a lone L'\0', one unit, L"Hi"
ListStrings == {<< >>, << 0 >>, << 258 >>, Hi}

StringLists == SeqsUpTo(ListStrings, MaxListLen)

ListInputs ==
    StringLists \cup {<< Ciao, Hi, Connie >>, << Hi, << >>, Ciao >>}
                \cup {<< s >> : s \in LongStrings}
                \cup {<< s, Hi >> : s \in LongStrings}

Blobs == SeqsUpTo(ByteVals, MaxBlobLen)

BlobInputs == Blobs \cup {<< 34, 51, 68 >>}
                    \cup {Repeat(255, n) : n \in (DWORD_MAX - 1)..(DWORD_MAX + 1)}

DwordInputs == {0, 100, DWORD_MAX}

TypeIds == {REG_NONE, REG_SZ, REG_EXPAND_SZ, REG_BINARY, REG_DWORD, REG_MULTI_SZ, REG_QWORD}

-----------------------------------------------------------------------------
(* RegValue (WinReg.hpp) *)

\* RegValue() = default: the member initialisers
RegValueDefault ==
    [ m_typeId       |-> REG_NONE,
      m_dword        |-> 0,
      m_string       |-> << >>,
      m_expandString |-> << >>,
      m_multiString  |-> << >>,
      m_binary       |-> << >> ]

\* explicit RegValue(TypeId)
RegValueCtor(typeId) == [RegValueDefault EXCEPT !.m_typeId = typeId]

GetType(v) == v.m_typeId

IsEmpty(v) == v.m_typeId = REG_NONE

\* ResetValues() forgetting the string list
ResetValuesKeepList(v) ==
    [v EXCEPT !.m_dword = 0, !.m_string = << >>, !.m_expandString = << >>,
              !.m_binary = << >>]

ResetValues(v) ==
    [v EXCEPT !.m_dword = 0, !.m_string = << >>, !.m_expandString = << >>,
              !.m_multiString = << >>, !.m_binary = << >>]

Reset(v, type) == [ResetValues(v) EXCEPT !.m_typeId = type]

\* A typed accessor either throws std::invalid_argument or returns (a reference
\* to) one member of the object.
Thrown(what) == [thrown |-> what, slot |-> "none"]
Returned(name) == [thrown |-> "none", slot |-> name]

DwordConst(v) ==
    IF v.m_typeId # REG_DWORD THEN Thrown("invalid_argument") ELSE Returned("m_dword")

StringConst(v) ==
    IF v.m_typeId # REG_SZ THEN Thrown("invalid_argument") ELSE Returned("m_string")

ExpandStringConst(v) ==
    IF v.m_typeId # REG_EXPAND_SZ THEN Thrown("invalid_argument") ELSE Returned("m_expandString")

MultiStringConst(v) ==
    IF v.m_typeId # REG_MULTI_SZ THEN Thrown("invalid_argument") ELSE Returned("m_multiString")

BinaryConst(v) ==
    IF v.m_typeId # REG_BINARY THEN Thrown("invalid_argument") ELSE Returned("m_binary")

DwordNoCheck(v) == Returned("m_dword")

Dword(v) ==
    IF v.m_typeId # REG_DWORD THEN Thrown("invalid_argument") ELSE Returned("m_dword")

String(v) ==
    IF v.m_typeId # REG_SZ THEN Thrown("invalid_argument") ELSE Returned("m_string")

ExpandString(v) ==
    IF v.m_typeId # REG_EXPAND_SZ THEN Thrown("invalid_argument") ELSE Returned("m_expandString")

MultiString(v) ==
    IF v.m_typeId # REG_MULTI_SZ THEN Thrown("invalid_argument") ELSE Returned("m_multiString")

Binary(v) ==
    IF v.m_typeId # REG_BINARY THEN Thrown("invalid_argument") ELSE Returned("m_binary")

AccessorKinds == {REG_DWORD, REG_SZ, REG_EXPAND_SZ, REG_MULTI_SZ, REG_BINARY}

\* The accessor a caller picks for a kind
ConstAccessorOf(v, typeId) ==
    CASE typeId = REG_DWORD     -> DwordConst(v)
      [] typeId = REG_SZ        -> StringConst(v)
      [] typeId = REG_EXPAND_SZ -> ExpandStringConst(v)
      [] typeId = REG_MULTI_SZ  -> MultiStringConst(v)
      [] typeId = REG_BINARY    -> BinaryConst(v)

AccessorOf(v, typeId) ==
    CASE typeId = REG_DWORD     -> Dword(v)
      [] typeId = REG_SZ        -> String(v)
      [] typeId = REG_EXPAND_SZ -> ExpandString(v)
      [] typeId = REG_MULTI_SZ  -> MultiString(v)
      [] typeId = REG_BINARY    -> Binary(v)

\* v.X() = x: the assignment goes to the member the accessor returned, and does
\* not happen when the accessor threw
Assign(v, typeId, x) ==
    LET r == AccessorOf(v, typeId)
    IN  IF r.thrown = "none" THEN [v EXCEPT ![r.slot] = x] ELSE v

\* The values a caller hands over: built the way the test program builds them
MakeValue(typeId, x) == Assign(RegValueCtor(typeId), typeId, x)

AccNone == [op |-> "none", constness |-> "none", kind |-> REG_NONE, before |-> RegValueDefault,
            thrown |-> "none", slot |-> "none"]

AccRecord(op, constness, kind, before, r) ==
    [op |-> op, constness |-> constness, kind |-> kind, before |-> before,
     thrown |-> r.thrown, slot |-> r.slot]

-----------------------------------------------------------------------------
(* Bytes, wchar_t units and sizes *)

\* The bytes of an array of wchar_t, low byte first
UnitsToBytes(us) ==
    [i \in 1..(SizeofWchar * Len(us)) |->
        IF i % 2 = 1 THEN us[(i + 1) \div 2] % 256 ELSE us[i \div 2] \div 256]

ByteAt(data, i) == IF i <= Len(data) THEN data[i] ELSE 0

\* An array of n zero-initialised wchar_ts after the registry copied data to its start
FillUnits(n, data) ==
    [i \in 1..n |-> ByteAt(data, 2 * i - 1) + 256 * ByteAt(data, 2 * i)]

\* A BYTE array of n zero-initialised bytes after the registry copied data to its start
FillBytes(n, data) == [i \in 1..n |-> ByteAt(data, i)]

\* The first n bytes at a pointer into memory mem
Take(mem, n) == SubSeq(mem, 1, Min(n, Len(mem)))

\* The bytes of a DWORD object, and the DWORD a 4-byte object holds
DwordToBytes(d) == [i \in 1..SizeofDword |-> (d \div (256 ^ (i - 1))) % 256]

RECURSIVE BytesToDwordFrom(_, _)
BytesToDwordFrom(bytes, i) ==
    IF i > SizeofDword THEN 0
    ELSE (ByteAt(bytes, i) + 256 * BytesToDwordFrom(bytes, i + 1)) % (2 ^ DwordBits)

BytesToDword(bytes) == BytesToDwordFrom(bytes, 1)

\* size_t arithmetic
SizeT(b, n) == n % (2 ^ SizeTBits(b))

SafeSizeToDwordCastUnchecked(b, size) ==
    [thrown |-> "none", dword |-> size % (2 ^ DwordBits)]

SafeSizeToDwordCast(b, size) ==
    IF b = "Win64"
    THEN IF size > DWORD_MAX
         THEN [thrown |-> "overflow_error", dword |-> 0]
         ELSE [thrown |-> "none", dword |-> size]
    ELSE [thrown |-> "none", dword |-> size]

-----------------------------------------------------------------------------
(* The registry: the values of the open key, and the Win32 calls on them *)

Names == {"TestValue"}

NoEntry == [present |-> FALSE, type |-> REG_NONE, data |-> << >>]
Entry(type, data) == [present |-> TRUE, type |-> type, data |-> data]

\* ::RegQueryValueEx(hKey, name, nullptr, &type or nullptr, lpData, &cb):
\* hasBuffer is lpData # nullptr, cb the size of the buffer in bytes.
RegQueryValueEx(st, name, hasBuffer, cb, inj) ==
    LET e == st[name]
    IN  IF inj # ERROR_SUCCESS
        THEN [result |-> inj, type |-> REG_NONE, size |-> cb, data |-> << >>]
        ELSE IF ~e.present
        THEN [result |-> ERROR_FILE_NOT_FOUND, type |-> REG_NONE, size |-> cb, data |-> << >>]
        ELSE IF ~hasBuffer
        THEN [result |-> ERROR_SUCCESS, type |-> e.type, size |-> Len(e.data), data |-> << >>]
        ELSE IF cb < Len(e.data)
        THEN [result |-> ERROR_MORE_DATA, type |-> e.type, size |-> Len(e.data), data |-> << >>]
        ELSE [result |-> ERROR_SUCCESS, type |-> e.type, size |-> Len(e.data), data |-> e.data]

\* ::RegSetValueEx(hKey, name, 0, type, lpData, cbData), data being the cbData bytes at lpData
RegSetValueEx(st, name, type, data, inj) ==
    IF inj # ERROR_SUCCESS
    THEN [result |-> inj, store |-> st]
    ELSE [result |-> ERROR_SUCCESS, store |-> [st EXCEPT ![name] = Entry(type, data)]]

\* ::RegDeleteValue(hKey, name)
RegDeleteValue(st, name, inj) ==
    IF inj # ERROR_SUCCESS
    THEN [result |-> inj, store |-> st]
    ELSE IF ~st[name].present
    THEN [result |-> ERROR_FILE_NOT_FOUND, store |-> st]
    ELSE [result |-> ERROR_SUCCESS, store |-> [st EXCEPT ![name] = NoEntry]]

\* One call of the registry API, as the registry sees it
Call(api, type, cbData, data) == [api |-> api, type |-> type, cbData |-> cbData, data |-> data]

\* What a helper or a function did: how it ended, the RegValue it returned, the
\* 0-based indices it read in the buffer of bufLen elements it allocated, and
\* the registry calls it made.
Outcomes == {"ok", "RegException", "invalid_argument", "overflow_error",
             "std_exception", "crash"}

Done(value, reads, bufLen, calls) ==
    [outcome |-> "ok", code |-> ERROR_SUCCESS, value |-> value,
     reads |-> reads, bufLen |-> bufLen, calls |-> calls]

Failed(outcome, code, reads, bufLen, calls) ==
    [outcome |-> outcome, code |-> code, value |-> RegValueDefault,
     reads |-> reads, bufLen |-> bufLen, calls |-> calls]

\* What undefined behaviour does: the process dies, or the read outside the
\* buffer yields L'\0', or it yields something else.
UBChoices == {"crash", "zero", "nonzero"}
GarbageUnit == 256 * 222 + 173

-----------------------------------------------------------------------------
(* Helpers called by QueryValue (WinReg.cpp).  valueSize is the size in bytes  *)
(* the first RegQueryValueEx call reported; st is the registry at the time of  *)
(* the helper's own call; inj is the status the registry is made to return     *)
(* (ERROR_SUCCESS: none); ub decides what undefined behaviour does.            *)

QueryCall(cb) == Call("RegQueryValueEx", REG_NONE, cb, << >>)

ReadValueDwordInternal(st, valueName, inj) ==
    LET q == RegQueryValueEx(st, valueName, TRUE, SizeofDword, inj)
        valueData == BytesToDword(FillBytes(SizeofDword, q.data))
    IN  IF q.result # ERROR_SUCCESS
        THEN Failed("RegException", q.result, {}, SizeofDword, << QueryCall(SizeofDword) >>)
        ELSE Done(MakeValue(REG_DWORD, valueData), {}, SizeofDword,
                  << QueryCall(SizeofDword) >>)

\* The tail both string readers share: str[stringBufferLenInWchars - 1] is
\* computed in DWORD arithmetic; reading at an index past the end of str is
\* undefined behaviour.
StripTerminator(b, typeId, str, stringBufferLenInWchars, ub, calls) ==
    LET index == (stringBufferLenInWchars - 1) % (2 ^ DwordBits)
        shrunk == SubSeq(str, 1, stringBufferLenInWchars - 1)
    IN  IF index < stringBufferLenInWchars
        THEN Done(MakeValue(typeId, IF str[index + 1] = 0 THEN shrunk ELSE str),
                  {index}, stringBufferLenInWchars, calls)
        ELSE CASE ub = "crash" ->
                    Failed("crash", 0, {index}, stringBufferLenInWchars, calls)
               [] ub = "nonzero" ->
                    Done(MakeValue(typeId, str), {index}, stringBufferLenInWchars, calls)
               [] ub = "zero" ->
                    \* str.resize(index): more than max_size() in a 32-bit build
                    IF b = "Win64"
                    THEN Done(MakeValue(typeId, str \o Repeat(0, index - Len(str))),
                              {index}, stringBufferLenInWchars, calls)
                    ELSE Failed("std_exception", 0, {index}, stringBufferLenInWchars, calls)

ReadValueStringInternalNoStrip(b, st, valueName, valueSize, inj, ub) ==
    LET n == valueSize \div SizeofWchar
        q == RegQueryValueEx(st, valueName, TRUE, valueSize, inj)
    IN  IF q.result # ERROR_SUCCESS
        THEN Failed("RegException", q.result, {}, n, << QueryCall(valueSize) >>)
        ELSE Done(MakeValue(REG_SZ, FillUnits(n, q.data)), {}, n, << QueryCall(valueSize) >>)

ReadValueStringInternal(b, st, valueName, valueSize, inj, ub) ==
    LET stringBufferLenInWchars == valueSize \div SizeofWchar
        sizeInBytes == valueSize
        q == RegQueryValueEx(st, valueName, TRUE, sizeInBytes, inj)
        str == FillUnits(stringBufferLenInWchars, q.data)
    IN  IF q.result # ERROR_SUCCESS
        THEN Failed("RegException", q.result, {}, stringBufferLenInWchars,
                    << QueryCall(sizeInBytes) >>)
        ELSE StripTerminator(b, REG_SZ, str, stringBufferLenInWchars, ub,
                             << QueryCall(sizeInBytes) >>)

ReadValueExpandStringInternal(b, st, valueName, valueSize, inj, ub) ==
    LET stringBufferLenInWchars == valueSize \div SizeofWchar
        sizeInBytes == valueSize
        q == RegQueryValueEx(st, valueName, TRUE, sizeInBytes, inj)
        str == FillUnits(stringBufferLenInWchars, q.data)
    IN  IF q.result # ERROR_SUCCESS
        THEN Failed("RegException", q.result, {}, stringBufferLenInWchars,
                    << QueryCall(sizeInBytes) >>)
        ELSE StripTerminator(b, REG_EXPAND_SZ, str, stringBufferLenInWchars, ub,
                             << QueryCall(sizeInBytes) >>)

ReadValueBinaryInternal(st, valueName, valueSize, inj) ==
    LET sizeInBytes == valueSize
        q == RegQueryValueEx(st, valueName, TRUE, sizeInBytes, inj)
        binaryData == FillBytes(valueSize, q.data)
    IN  IF q.result # ERROR_SUCCESS
        THEN Failed("RegException", q.result, {}, valueSize, << QueryCall(sizeInBytes) >>)
        ELSE Done(MakeValue(REG_BINARY, binaryData), {}, valueSize,
                  << QueryCall(sizeInBytes) >>)

\* The scan loop going on after an empty string instead of stopping there
RECURSIVE ScanMultiStringSkipEmpty(_, _, _, _)
ScanMultiStringSkipEmpty(buffer, pos, multiStrings, reads) ==
    IF pos >= Len(buffer)
    THEN [multiStrings |-> multiStrings, reads |-> reads, oob |-> "no"]
    ELSE IF buffer[pos + 1] = 0
    THEN ScanMultiStringSkipEmpty(buffer, pos + 1, multiStrings, reads \cup {pos})
    ELSE LET zeros == {j \in pos..(Len(buffer) - 1) : buffer[j + 1] = 0}
         IN  IF zeros = {}
             THEN [multiStrings |-> Append(multiStrings, SubSeq(buffer, pos + 1, Len(buffer))),
                   reads |-> reads \cup (pos..Len(buffer)), oob |-> "wcslen"]
             ELSE LET end == CHOOSE j \in zeros : \A k \in zeros : j <= k
                  IN  ScanMultiStringSkipEmpty(buffer, end + 1,
                                               Append(multiStrings, SubSeq(buffer, pos + 1, end)),
                                               reads \cup (pos..end))

\* The scan loop of ReadValueMultiStringInternal from 0-based position pos:
\* *pszz, then wcslen(pszz), then the push_back.  oob says that a position
\* outside buffer was read, at the loop test ("test") or inside wcslen ("wcslen").
RECURSIVE ScanMultiString(_, _, _, _)
ScanMultiString(buffer, pos, multiStrings, reads) ==
    IF pos >= Len(buffer)
    THEN [multiStrings |-> multiStrings, reads |-> reads \cup {pos}, oob |-> "test"]
    ELSE IF buffer[pos + 1] = 0
    THEN [multiStrings |-> multiStrings, reads |-> reads \cup {pos}, oob |-> "no"]
    ELSE LET zeros == {j \in pos..(Len(buffer) - 1) : buffer[j + 1] = 0}
         IN  IF zeros = {}
             THEN [multiStrings |-> Append(multiStrings, SubSeq(buffer, pos + 1, Len(buffer))),
                   reads |-> reads \cup (pos..Len(buffer)), oob |-> "wcslen"]
             ELSE LET end == CHOOSE j \in zeros : \A k \in zeros : j <= k
                      len == end - pos
                  IN  ScanMultiString(buffer, pos + len + 1,
                                      Append(multiStrings, SubSeq(buffer, pos + 1, end)),
                                      reads \cup (pos..end))

ReadValueMultiStringInternal(st, valueName, valueSize, inj, ub) ==
    LET sizeInBytes == valueSize
        q == RegQueryValueEx(st, valueName, TRUE, sizeInBytes, inj)
        \* std::vector<wchar_t> buffer(valueSize): valueSize elements
        buffer == FillUnits(valueSize, q.data)
        scan == ScanMultiString(buffer, 0, << >>, {})
        calls == << QueryCall(sizeInBytes) >>
    IN  IF q.result # ERROR_SUCCESS
        THEN Failed("RegException", q.result, {}, valueSize, calls)
        ELSE IF scan.oob = "no"
        THEN Done(MakeValue(REG_MULTI_SZ, scan.multiStrings), scan.reads, valueSize, calls)
        ELSE CASE ub = "crash" -> Failed("crash", 0, scan.reads, valueSize, calls)
               [] ub = "zero" ->
                    \* the memory after the buffer held L'\0'
                    Done(MakeValue(REG_MULTI_SZ, scan.multiStrings), scan.reads, valueSize, calls)
               [] ub = "nonzero" ->
                    \* the memory after the buffer held something else, then L'\0'
                    Done(MakeValue(REG_MULTI_SZ,
                            IF scan.oob = "test"
                            THEN Append(scan.multiStrings, << GarbageUnit >>)
                            ELSE [scan.multiStrings EXCEPT ![Len(scan.multiStrings)] =
                                      Append(@, GarbageUnit)]),
                         scan.reads, valueSize, calls)

-----------------------------------------------------------------------------
(* Helpers called by SetValue (WinReg.cpp).  Each returns how it ended, the    *)
(* registry calls it made and the registry it leaves.                          *)

Wrote(outcome, code, calls, st) ==
    [outcome |-> outcome, code |-> code, calls |-> calls, store |-> st]

\* The call of ::RegSetValueEx and the test of its result that end every writer
SetAndCheck(st, valueName, type, data, dataSize, inj) ==
    LET w == RegSetValueEx(st, valueName, type, data, inj)
        calls == << Call("RegSetValueEx", type, dataSize, data) >>
    IN  IF w.result # ERROR_SUCCESS
        THEN Wrote("RegException", w.result, calls, w.store)
        ELSE Wrote("ok", ERROR_SUCCESS, calls, w.store)

WriteValueBinaryInternal(b, st, valueName, value, inj, ub) ==
    LET a == BinaryConst(value)
        data == value.m_binary
        cast == SafeSizeToDwordCast(b, SizeT(b, Len(data)))
        dataSize == cast.dword
    IN  IF a.thrown # "none" THEN Wrote(a.thrown, 0, << >>, st)
        ELSE IF cast.thrown # "none" THEN Wrote(cast.thrown, 0, << >>, st)
        \* &data[0] on an empty vector is undefined behaviour: a checked
        \* operator[] ends the process, an unchecked one yields a pointer that
        \* is not read, as dataSize is 0
        ELSE IF Len(data) = 0 /\ ub = "crash" THEN Wrote("crash", 0, << >>, st)
        ELSE SetAndCheck(st, valueName, REG_BINARY, Take(data, dataSize), dataSize, inj)

WriteValueDwordInternal(st, valueName, value, inj) ==
    LET a == DwordConst(value)
        data == value.m_dword
        dataSize == SizeofDword
    IN  IF a.thrown # "none" THEN Wrote(a.thrown, 0, << >>, st)
        ELSE SetAndCheck(st, valueName, REG_DWORD, Take(DwordToBytes(data), dataSize),
                         dataSize, inj)

WriteValueStringInternalNoTerminator(b, st, valueName, value, inj) ==
    LET str == value.m_string
        dataSize == Len(str) * SizeofWchar
    IN  SetAndCheck(st, valueName, REG_SZ, UnitsToBytes(str), dataSize, inj)

WriteValueStringInternal(b, st, valueName, value, inj) ==
    LET a == StringConst(value)
        str == value.m_string
        cast == SafeSizeToDwordCast(b, SizeT(b, (Len(str) + 1) * SizeofWchar))
        dataSize == cast.dword
        \* str.c_str(): the units of str and the terminating L'\0'
        c_str == UnitsToBytes(Append(str, 0))
    IN  IF a.thrown # "none" THEN Wrote(a.thrown, 0, << >>, st)
        ELSE IF cast.thrown # "none" THEN Wrote(cast.thrown, 0, << >>, st)
        ELSE SetAndCheck(st, valueName, REG_SZ, Take(c_str, dataSize), dataSize, inj)

WriteValueExpandStringInternal(b, st, valueName, value, inj) ==
    LET a == ExpandStringConst(value)
        str == value.m_expandString
        cast == SafeSizeToDwordCast(b, SizeT(b, (Len(str) + 1) * SizeofWchar))
        dataSize == cast.dword
        c_str == UnitsToBytes(Append(str, 0))
    IN  IF a.thrown # "none" THEN Wrote(a.thrown, 0, << >>, st)
        ELSE IF cast.thrown # "none" THEN Wrote(cast.thrown, 0, << >>, st)
        ELSE SetAndCheck(st, valueName, REG_EXPAND_SZ, Take(c_str, dataSize), dataSize, inj)

\* The sum of s.size() + 1 over the strings, in size_t
RECURSIVE TotalLen(_, _)
TotalLen(b, multiString) ==
    IF multiString = << >> THEN 0
    ELSE SizeT(b, TotalLen(b, Tail(multiString)) + (Len(Head(multiString)) + 1))

\* (dest += s.size() in place of dest += s.size() + 1: each string overwrites
\* the terminator of the one before)
RECURSIVE CopyStringsOverlapping(_)
CopyStringsOverlapping(multiString) ==
    IF multiString = << >> THEN << >>
    ELSE IF Len(multiString) = 1 THEN Append(Head(multiString), 0)
    ELSE Head(multiString) \o CopyStringsOverlapping(Tail(multiString))

\* What the wmemcpy loop writes from dest = &buffer[0] on: every string with
\* its terminating L'\0'
RECURSIVE CopyStrings(_)
CopyStrings(multiString) ==
    IF multiString = << >> THEN << >>
    ELSE Append(Head(multiString), 0) \o CopyStrings(Tail(multiString))

\* The buffer WriteValueMultiStringInternal builds
MultiStringBufferSingleNul(b, multiString) == CopyStrings(multiString)

MultiStringBuffer(b, multiString) ==
    LET totalLen == SizeT(b, TotalLen(b, multiString) + 1)
        resized == Repeat(0, totalLen)
        copied == Append(CopyStrings(multiString), 0)       \* *dest = L'\0'
    IN  IF multiString # << >>
        THEN [i \in 1..totalLen |-> IF i <= Len(copied) THEN copied[i] ELSE resized[i]]
        ELSE << 0, 0 >>                                     \* buffer.resize(2)
    \* (totalLen cannot wrap: the strings and the buffer are in memory together,
    \* see FitsAddressSpace)

WriteValueMultiStringInternal(b, st, valueName, value, inj) ==
    LET a == MultiStringConst(value)
        multiString == value.m_multiString
        buffer == MultiStringBuffer(b, multiString)
        cast == SafeSizeToDwordCast(b, SizeT(b, Len(buffer) * SizeofWchar))
        dataSize == cast.dword
    IN  IF a.thrown # "none" THEN Wrote(a.thrown, 0, << >>, st)
        ELSE IF cast.thrown # "none" THEN Wrote(cast.thrown, 0, << >>, st)
        ELSE SetAndCheck(st, valueName, REG_MULTI_SZ, Take(UnitsToBytes(buffer), dataSize),
                         dataSize, inj)

-----------------------------------------------------------------------------
(* Public functions (WinReg.cpp) *)

\* QueryValue whose switch reads every other type as REG_BINARY
QueryValueNoDefault(b, st, during, valueName, inj1, inj2, ub) ==
    LET q == RegQueryValueEx(st, valueName, FALSE, 0, inj1)
        first == << QueryCall(0) >>
        valueType == q.type
        dataSize == q.size
        r == CASE valueType = REG_BINARY    -> ReadValueBinaryInternal(during, valueName, dataSize, inj2)
               [] valueType = REG_DWORD     -> ReadValueDwordInternal(during, valueName, inj2)
               [] valueType = REG_SZ        ->
                      ReadValueStringInternal(b, during, valueName, dataSize, inj2, ub)
               [] valueType = REG_EXPAND_SZ ->
                      ReadValueExpandStringInternal(b, during, valueName, dataSize, inj2, ub)
               [] valueType = REG_MULTI_SZ  ->
                      ReadValueMultiStringInternal(during, valueName, dataSize, inj2, ub)
               [] OTHER -> ReadValueBinaryInternal(during, valueName, dataSize, inj2)
    IN  IF q.result # ERROR_SUCCESS
        THEN Failed("RegException", q.result, {}, 0, first)
        ELSE [r EXCEPT !.calls = first \o @]

\* st is the registry at the first RegQueryValueEx call, during the registry at
\* the helper's; inj1 is the status forced on the first call, inj2 on the helper's
QueryValue(b, st, during, valueName, inj1, inj2, ub) ==
    LET q == RegQueryValueEx(st, valueName, FALSE, 0, inj1)
        first == << QueryCall(0) >>
        valueType == q.type
        dataSize == q.size
        r == CASE valueType = REG_BINARY    -> ReadValueBinaryInternal(during, valueName, dataSize, inj2)
               [] valueType = REG_DWORD     -> ReadValueDwordInternal(during, valueName, inj2)
               [] valueType = REG_SZ        ->
                      ReadValueStringInternal(b, during, valueName, dataSize, inj2, ub)
               [] valueType = REG_EXPAND_SZ ->
                      ReadValueExpandStringInternal(b, during, valueName, dataSize, inj2, ub)
               [] valueType = REG_MULTI_SZ  ->
                      ReadValueMultiStringInternal(during, valueName, dataSize, inj2, ub)
               [] OTHER -> Failed("invalid_argument", 0, {}, 0, << >>)
    IN  IF q.result # ERROR_SUCCESS
        THEN Failed("RegException", q.result, {}, 0, first)
        ELSE [r EXCEPT !.calls = first \o @]

SetValue(b, st, valueName, value, inj, ub) ==
    CASE GetType(value) = REG_BINARY    -> WriteValueBinaryInternal(b, st, valueName, value, inj, ub)
      [] GetType(value) = REG_DWORD     -> WriteValueDwordInternal(st, valueName, value, inj)
      [] GetType(value) = REG_SZ        -> WriteValueStringInternal(b, st, valueName, value, inj)
      [] GetType(value) = REG_EXPAND_SZ ->
             WriteValueExpandStringInternal(b, st, valueName, value, inj)
      [] GetType(value) = REG_MULTI_SZ  ->
             WriteValueMultiStringInternal(b, st, valueName, value, inj)
      [] OTHER -> Wrote("invalid_argument", 0, << >>, st)

\* DeleteValue returning without the call of ::RegDeleteValue
DeleteValueNoCall(st, valueName, inj) ==
    Wrote("ok", ERROR_SUCCESS, << Call("RegDeleteValue", REG_NONE, 0, << >>) >>, st)

DeleteValue(st, valueName, inj) ==
    LET d == RegDeleteValue(st, valueName, inj)
        calls == << Call("RegDeleteValue", REG_NONE, 0, << >>) >>
    IN  IF d.result # ERROR_SUCCESS
        THEN Wrote("RegException", d.result, calls, d.store)
        ELSE Wrote("ok", ERROR_SUCCESS, calls, d.store)

-----------------------------------------------------------------------------
(* The program's use of one RegValue object *)

\* A kept reference: the member it refers to; stale once Reset() has run since
\* the accessor returned it; usedStale once the program wrote through it then
NoRef == [slot |-> "none", stale |-> FALSE, usedStale |-> FALSE]

ValueInit ==
    /\ val = RegValueDefault
    /\ acc = AccNone
    /\ ref = NoRef

\* winreg::RegValue v(typeId);
ValConstruct(typeId) ==
    /\ val' = RegValueCtor(typeId)
    /\ acc' = AccRecord("RegValue", "none", typeId, val, Thrown("none"))

\* Reset() setting the type id only
ValResetKindOnly(type) ==
    /\ val' = [val EXCEPT !.m_typeId = type]
    /\ acc' = AccRecord("Reset", "none", type, val, Thrown("none"))

\* v.Reset(type); type defaults to REG_NONE
ValReset(type) ==
    /\ val' = Reset(val, type)
    /\ acc' = AccRecord("Reset", "none", type, val, Thrown("none"))

\* ... = v.Dword() and the like on a const RegValue
ValRead(kind) ==
    /\ val' = val
    /\ acc' = AccRecord("read", "const", kind, val, ConstAccessorOf(val, kind))

\* v.Dword() = x; v.String() = s; v.ExpandString() = s
ValWrite(kind, x) ==
    /\ val' = Assign(val, kind, x)
    /\ acc' = AccRecord("write", "non-const", kind, val, AccessorOf(val, kind))

\* v.MultiString().push_back(s); v.Binary().push_back(b)
ValPushBack(kind, x) ==
    LET r == AccessorOf(val, kind)
    IN  /\ r.thrown = "none" =>
               Len(val[r.slot]) < (IF kind = REG_MULTI_SZ THEN MaxListLen ELSE MaxBlobLen)
        /\ val' = (IF r.thrown = "none" THEN [val EXCEPT ![r.slot] = Append(@, x)] ELSE val)
        /\ acc' = AccRecord("push_back", "non-const", kind, val, r)

\* std::wstring& s = v.String(); and the like: the reference outlives the call
ValTakeRef(kind) ==
    LET r == AccessorOf(val, kind)
    IN  /\ val' = val
        /\ acc' = AccRecord("reference", "non-const", kind, val, r)
        /\ ref' = IF r.thrown = "none" THEN [ref EXCEPT !.slot = r.slot, !.stale = FALSE]
                                       ELSE ref

\* s = x; through the kept reference
ValWriteRef(slot, x) ==
    /\ ref.slot = slot
    /\ val' = [val EXCEPT ![slot] = x]
    /\ acc' = AccRecord("write through reference", "non-const", GetType(val), val,
                        Returned(slot))
    /\ ref' = [ref EXCEPT !.usedStale = @ \/ ref.stale]

\* l.push_back(x); through the kept reference
ValPushBackRef(slot, x) ==
    /\ ref.slot = slot
    /\ Len(val[slot]) < (IF slot = "m_multiString" THEN MaxListLen ELSE MaxBlobLen)
    /\ val' = [val EXCEPT ![slot] = Append(@, x)]
    /\ acc' = AccRecord("write through reference", "non-const", GetType(val), val,
                        Returned(slot))
    /\ ref' = [ref EXCEPT !.usedStale = @ \/ ref.stale]

\* The program working on a RegValue and keeping the references it gets
RefNext ==
    \/ \E t \in TypeIds : ValConstruct(t) /\ ref' = NoRef /\ UNCHANGED notRefVars
    \/ \E t \in TypeIds :
          /\ ValReset(t)
          /\ ref' = [ref EXCEPT !.stale = (ref.slot # "none")]
          /\ UNCHANGED notRefVars
    \/ \E k \in AccessorKinds : ValTakeRef(k) /\ UNCHANGED notRefVars
    \/ \E x \in DwordInputs : ValWriteRef("m_dword", x) /\ UNCHANGED notRefVars
    \/ \E x \in Strings : ValWriteRef("m_string", x) /\ UNCHANGED notRefVars
    \/ \E x \in Strings : ValWriteRef("m_expandString", x) /\ UNCHANGED notRefVars
    \/ \E x \in {Hi} : ValPushBackRef("m_multiString", x) /\ UNCHANGED notRefVars
    \/ \E x \in ByteVals : ValPushBackRef("m_binary", x) /\ UNCHANGED notRefVars

ValueNext ==
    \/ \E t \in TypeIds : ValConstruct(t) /\ UNCHANGED notValueVars
    \/ \E t \in TypeIds : ValReset(t) /\ UNCHANGED notValueVars
    \/ \E k \in AccessorKinds : ValRead(k) /\ UNCHANGED notValueVars
    \/ \E x \in DwordInputs : ValWrite(REG_DWORD, x) /\ UNCHANGED notValueVars
    \/ \E s \in Strings : ValWrite(REG_SZ, s) /\ UNCHANGED notValueVars
    \/ \E s \in Strings : ValWrite(REG_EXPAND_SZ, s) /\ UNCHANGED notValueVars
    \/ \E s \in Strings : ValPushBack(REG_MULTI_SZ, s) /\ UNCHANGED notValueVars
    \/ \E b \in ByteVals : ValPushBack(REG_BINARY, b) /\ UNCHANGED notValueVars


-----------------------------------------------------------------------------
(* The program's calls of SetValue, QueryValue and DeleteValue on one open key, *)
(* and other programs writing to the same key                                   *)

\* The values handed to SetValue
SetInputs ==
    {MakeValue(REG_DWORD, x) : x \in DwordInputs}
        \cup {MakeValue(REG_SZ, x) : x \in StringInputs}
        \cup {MakeValue(REG_EXPAND_SZ, x) : x \in StringInputs}
        \cup {MakeValue(REG_MULTI_SZ, x) : x \in ListInputs}
        \cup {MakeValue(REG_BINARY, x) : x \in BlobInputs}
        \cup {RegValueDefault, RegValueCtor(REG_QWORD)}

\* The values of the test program: the registry is made to fail on these
ProbeInputs ==
    {MakeValue(REG_DWORD, 100), MakeValue(REG_SZ, Ciao), MakeValue(REG_EXPAND_SZ, Ciao),
     MakeValue(REG_MULTI_SZ, << Ciao, Hi, Connie >>), MakeValue(REG_BINARY, << 34, 51, 68 >>)}

RECURSIVE SumLen1(_)
SumLen1(multiString) ==
    IF multiString = << >> THEN 0 ELSE Len(Head(multiString)) + 1 + SumLen1(Tail(multiString))

\* The true size in bytes of the data SetValue is to write for value, computed
\* in the integers
TrueByteLength(value) ==
    CASE GetType(value) = REG_BINARY    -> Len(value.m_binary)
      [] GetType(value) = REG_DWORD     -> SizeofDword
      [] GetType(value) = REG_SZ        -> (Len(value.m_string) + 1) * SizeofWchar
      [] GetType(value) = REG_EXPAND_SZ -> (Len(value.m_expandString) + 1) * SizeofWchar
      [] GetType(value) = REG_MULTI_SZ  ->
             IF value.m_multiString = << >> THEN 2 * SizeofWchar
             ELSE (SumLen1(value.m_multiString) + 1) * SizeofWchar
      [] OTHER -> 0

\* An object is smaller than the address space of the process that holds it; a
\* string list is in memory together with the buffer it is packed into.
FitsAddressSpace(b, value) ==
    IF GetType(value) = REG_MULTI_SZ
    THEN SumLen1(value.m_multiString) * SizeofWchar + TrueByteLength(value) < 2 ^ SizeTBits(b)
    ELSE TrueByteLength(value) < 2 ^ SizeTBits(b)

Injected == {ERROR_SUCCESS, ERROR_ACCESS_DENIED}

\* Whether SetValue(value) reaches undefined behaviour
SetValueReachesUB(value) == GetType(value) = REG_BINARY /\ value.m_binary = << >>

\* Data other programs leave in an entry
RawUnits == SeqsUpTo(Units, MaxRawUnits)
OtherEntries ==
    {Entry(t, UnitsToBytes(us)) : t \in {REG_SZ, REG_EXPAND_SZ, REG_MULTI_SZ}, us \in RawUnits}
        \cup {Entry(t, d) : t \in {REG_BINARY, REG_DWORD, REG_QWORD, REG_NONE}, d \in Blobs}

NotWritten == [has |-> FALSE, value |-> RegValueDefault]

ResNone ==
    [op |-> "none", name |-> "", outcome |-> "ok", code |-> ERROR_SUCCESS,
     value |-> RegValueDefault, reads |-> {}, bufLen |-> 0, calls |-> << >>,
     arg |-> RegValueDefault, inj |-> ERROR_SUCCESS, raced |-> FALSE, old |-> NoEntry]

RegInit ==
    /\ store = [n \in Names |-> NoEntry]
    /\ written = [n \in Names |-> NotWritten]
    /\ res = ResNone

\* No call is in progress or waiting for its result to be taken
Idle == res.op = "none"

\* SetValue(key.Get(), name, value)
CallSetValue(name, value, inj, ub) ==
    /\ Idle
    /\ FitsAddressSpace(build, value)
    /\ \E r \in {SetValue(build, store, name, value, inj, ub)} :
        /\ store' = r.store
        /\ written' = [written EXCEPT ![name] =
                          IF r.outcome = "ok" THEN [has |-> TRUE, value |-> value] ELSE @]
        /\ res' = [op |-> "SetValue", name |-> name, outcome |-> r.outcome, code |-> r.code,
                   value |-> RegValueDefault, reads |-> {}, bufLen |-> 0, calls |-> r.calls,
                   arg |-> value, inj |-> inj, raced |-> FALSE, old |-> NoEntry]

\* winreg::RegValue value = QueryValue(key.Get(), name)
CallQueryValue(name, inj1, inj2, ub) ==
    /\ Idle
    /\ \E r \in {QueryValue(build, store, store, name, inj1, inj2, ub)} :
        /\ res' = [op |-> "QueryValue", name |-> name, outcome |-> r.outcome, code |-> r.code,
                   value |-> r.value, reads |-> r.reads, bufLen |-> r.bufLen,
                   calls |-> r.calls, arg |-> RegValueDefault,
                   inj |-> IF inj1 # ERROR_SUCCESS THEN inj1 ELSE inj2,
                   raced |-> FALSE, old |-> NoEntry]
        /\ UNCHANGED << store, written >>

\* The same call, another program setting the entry to e between the two
\* ::RegQueryValueEx calls QueryValue makes; old is the entry the first call saw
CallQueryValueRaced(name, e, ub) ==
    /\ Idle
    /\ store[name].present
    /\ e # store[name]
    /\ \E r \in {QueryValue(build, store, [store EXCEPT ![name] = e], name,
                             ERROR_SUCCESS, ERROR_SUCCESS, ub)} :
        /\ Len(r.calls) = 2
        /\ store' = [store EXCEPT ![name] = e]
        /\ written' = [written EXCEPT ![name] = NotWritten]
        /\ res' = [op |-> "QueryValue", name |-> name, outcome |-> r.outcome, code |-> r.code,
                   value |-> r.value, reads |-> r.reads, bufLen |-> r.bufLen,
                   calls |-> r.calls, arg |-> RegValueDefault, inj |-> ERROR_SUCCESS,
                   raced |-> TRUE, old |-> store[name]]

\* DeleteValue(key.Get(), name)
CallDeleteValue(name, inj) ==
    /\ Idle
    /\ \E r \in {DeleteValue(store, name, inj)} :
        /\ store' = r.store
        /\ written' = [written EXCEPT ![name] = IF r.outcome = "ok" THEN NotWritten ELSE @]
        /\ res' = [ResNone EXCEPT !.op = "DeleteValue", !.name = name, !.outcome = r.outcome,
                                  !.code = r.code, !.calls = r.calls, !.inj = inj]

\* The caller takes the result of the call (the returned value or the
\* exception); after a crash, the program is run again.
Return ==
    /\ ~Idle
    /\ res' = ResNone
    /\ UNCHANGED << store, written >>

\* Another program (or regedit) sets the entry.  The calls above are single
\* steps, so a write that falls between a call and its Return is the same as
\* one right after the Return, unless it falls between the two registry
\* calls of QueryValue (CallQueryValueRaced).
OtherProgramWrites(name, e) ==
    /\ Idle
    /\ store' = [store EXCEPT ![name] = e]
    /\ written' = [written EXCEPT ![name] = NotWritten]
    /\ res' = res

RegNext ==
    \/ Return /\ UNCHANGED notRegVars
    \/ \E n \in Names, v \in SetInputs :
          \E ub \in (IF SetValueReachesUB(v) THEN UBChoices ELSE {"zero"}) :
             CallSetValue(n, v, ERROR_SUCCESS, ub) /\ UNCHANGED notRegVars
    \/ \E n \in Names, v \in ProbeInputs : CallSetValue(n, v, ERROR_ACCESS_DENIED, "zero") /\ UNCHANGED notRegVars
    \/ \E n \in Names, ub \in UBChoices : CallQueryValue(n, ERROR_SUCCESS, ERROR_SUCCESS, ub) /\ UNCHANGED notRegVars
    \/ \E n \in Names : CallQueryValue(n, ERROR_ACCESS_DENIED, ERROR_SUCCESS, "zero") /\ UNCHANGED notRegVars
    \/ \E n \in Names : CallQueryValue(n, ERROR_SUCCESS, ERROR_ACCESS_DENIED, "zero") /\ UNCHANGED notRegVars
    \/ \E n \in Names, inj \in Injected : CallDeleteValue(n, inj) /\ UNCHANGED notRegVars
    \/ \E n \in Names, e \in OtherEntries : OtherProgramWrites(n, e) /\ UNCHANGED notRegVars
    \/ \E n \in Names, e \in OtherEntries, ub \in UBChoices :
          CallQueryValueRaced(n, e, ub) /\ UNCHANGED notRegVars

-----------------------------------------------------------------------------
(* RegKey (WinReg.hpp).  nullptr is 0.  A raw handle reaches a RegKey from the  *)
(* registry (OpenKey, CreateKey and ConnectRegistry end in RegKey(hKeyResult)), *)
(* from the caller who got it from Detach, or from the RegKey's own Get().      *)

Keys == 1..NKeys
Handles == 1..NHandles
nullptr == 0

Live(k) == life[k] = "live"

IsValid(k) == m_hKey[k] # nullptr

Get(k) == m_hKey[k]

\* What an operation did: closed is the sequence of handles it passed to
\* ::RegCloseKey, ret the handle it returned
Did(op, k, other, h, closed, ret) ==
    [op |-> op, key |-> k, other |-> other, arg |-> h, closed |-> closed, ret |-> ret]

KeyInit ==
    /\ m_hKey = [k \in Keys |-> nullptr]
    /\ life = [k \in Keys |-> "unborn"]
    /\ closes = [h \in Handles |-> 0]
    /\ holder = [h \in Handles |-> "store"]
    /\ last = Did("none", 0, 0, nullptr, << >>, nullptr)

\* The registry hands its handles out in order, and the program names its
\* objects in the order it creates them
Fresh == {h \in Handles : holder[h] = "store" /\ \A g \in 1..(h - 1) : holder[g] # "store"}

Unborn(k) == life[k] = "unborn" /\ \A j \in 1..(k - 1) : life[j] # "unborn"

\* The handles the caller can pass as a raw HKEY: nullptr, the one the registry
\* has just opened, or one Detach gave back
RawHandles == {nullptr} \cup Fresh \cup {h \in Handles : holder[h] = "caller"}

TakeOwnership(h) == IF h = nullptr THEN holder ELSE [holder EXCEPT ![h] = "wrapper"]

\* RegKey::Close() on a RegKey holding hKey, cl being the close counts: the
\* member and the counts it leaves, and the ::RegCloseKey calls it made
Close(hKey, cl) ==
    IF hKey # nullptr
    THEN [m_hKey |-> nullptr, closes |-> [cl EXCEPT ![hKey] = @ + 1], closed |-> << hKey >>]
    ELSE [m_hKey |-> nullptr, closes |-> cl, closed |-> << >>]

\* RegKey k;
DefaultConstruct(k) ==
    /\ Unborn(k)
    /\ life' = [life EXCEPT ![k] = "live"]
    /\ m_hKey' = [m_hKey EXCEPT ![k] = nullptr]
    /\ last' = Did("RegKey()", k, 0, nullptr, << >>, nullptr)
    /\ UNCHANGED << closes, holder >>

\* RegKey k(hKey);
ConstructFromHandle(k, hKey) ==
    /\ Unborn(k)
    /\ hKey \in RawHandles
    /\ life' = [life EXCEPT ![k] = "live"]
    /\ m_hKey' = [m_hKey EXCEPT ![k] = hKey]
    /\ holder' = TakeOwnership(hKey)
    /\ last' = Did("RegKey(HKEY)", k, 0, hKey, << >>, nullptr)
    /\ UNCHANGED closes

\* The move constructor leaving the source as it was
MoveConstructKeepSource(k, other) ==
    /\ Unborn(k)
    /\ Live(other)
    /\ life' = [life EXCEPT ![k] = "live"]
    /\ m_hKey' = [m_hKey EXCEPT ![k] = m_hKey[other]]
    /\ last' = Did("RegKey(RegKey&&)", k, other, nullptr, << >>, nullptr)
    /\ UNCHANGED << closes, holder >>

\* RegKey k(std::move(other));
MoveConstruct(k, other) ==
    /\ Unborn(k)
    /\ Live(other)
    /\ life' = [life EXCEPT ![k] = "live"]
    /\ m_hKey' = [m_hKey EXCEPT ![k] = m_hKey[other], ![other] = nullptr]
    /\ last' = Did("RegKey(RegKey&&)", k, other, nullptr, << >>, nullptr)
    /\ UNCHANGED << closes, holder >>

\* The move assignment leaving the source as it was
MoveAssignKeepSource(k, other) ==
    /\ Live(k)
    /\ Live(other)
    /\ IF other # k
       THEN LET c == Close(m_hKey[k], closes)
            IN  /\ m_hKey' = [m_hKey EXCEPT ![k] = m_hKey[other]]
                /\ closes' = c.closes
                /\ last' = Did("operator=", k, other, nullptr, c.closed, nullptr)
       ELSE /\ UNCHANGED << m_hKey, closes >>
            /\ last' = Did("operator=", k, other, nullptr, << >>, nullptr)
    /\ UNCHANGED << life, holder >>

\* k = std::move(other); other may be k itself
MoveAssign(k, other) ==
    /\ Live(k)
    /\ Live(other)
    /\ IF other # k
       THEN LET c == Close(m_hKey[k], closes)
            IN  /\ m_hKey' = [m_hKey EXCEPT ![k] = m_hKey[other], ![other] = nullptr]
                /\ closes' = c.closes
                /\ last' = Did("operator=", k, other, nullptr, c.closed, nullptr)
       ELSE /\ UNCHANGED << m_hKey, closes >>
            /\ last' = Did("operator=", k, other, nullptr, << >>, nullptr)
    /\ UNCHANGED << life, holder >>

\* ~RegKey()
Destroy(k) ==
    /\ Live(k)
    /\ LET c == Close(m_hKey[k], closes)
       IN  /\ m_hKey' = [m_hKey EXCEPT ![k] = c.m_hKey]
           /\ closes' = c.closes
           /\ last' = Did("~RegKey", k, 0, nullptr, c.closed, nullptr)
    /\ life' = [life EXCEPT ![k] = "dead"]
    /\ UNCHANGED holder

\* k.Close();
CallClose(k) ==
    /\ Live(k)
    /\ LET c == Close(m_hKey[k], closes)
       IN  /\ m_hKey' = [m_hKey EXCEPT ![k] = c.m_hKey]
           /\ closes' = c.closes
           /\ last' = Did("Close", k, 0, nullptr, c.closed, nullptr)
    /\ UNCHANGED << life, holder >>

\* HKEY h = k.Detach();
Detach(k) ==
    /\ Live(k)
    /\ LET hKey == m_hKey[k]
       IN  /\ m_hKey' = [m_hKey EXCEPT ![k] = nullptr]
           /\ holder' = IF hKey = nullptr THEN holder ELSE [holder EXCEPT ![hKey] = "caller"]
           /\ last' = Did("Detach", k, 0, nullptr, << >>, hKey)
    /\ UNCHANGED << life, closes >>

\* k.Attach(hKey);
Attach(k, hKey) ==
    /\ Live(k)
    /\ LET c == Close(m_hKey[k], closes)
       IN  /\ m_hKey' = [m_hKey EXCEPT ![k] = hKey]
           /\ closes' = c.closes
           /\ last' = Did("Attach", k, 0, hKey, c.closed, nullptr)
    /\ holder' = TakeOwnership(hKey)
    /\ UNCHANGED life

\* k.Swap(other); swap(k, other); other may be k itself
Swap(k, other) ==
    /\ Live(k)
    /\ Live(other)
    /\ m_hKey' = [m_hKey EXCEPT ![k] = m_hKey[other], ![other] = m_hKey[k]]
    /\ last' = Did("Swap", k, other, nullptr, << >>, nullptr)
    /\ UNCHANGED << life, closes, holder >>

\* The operation has returned and the program goes on to its next one
KeyIdle == last.op = "none"

KeyReturn ==
    /\ ~KeyIdle
    /\ last' = Did("none", 0, 0, nullptr, << >>, nullptr)
    /\ UNCHANGED << m_hKey, life, closes, holder >>

KeyNext ==
    \/ KeyReturn /\ UNCHANGED notKeyVars
    \/ \E k \in Keys : KeyIdle /\ DefaultConstruct(k) /\ UNCHANGED notKeyVars
    \/ \E k \in Keys, h \in Handles \cup {nullptr} :
          KeyIdle /\ ConstructFromHandle(k, h) /\ UNCHANGED notKeyVars
    \/ \E k, other \in Keys : KeyIdle /\ MoveConstruct(k, other) /\ UNCHANGED notKeyVars
    \/ \E k, other \in Keys : KeyIdle /\ MoveAssign(k, other) /\ UNCHANGED notKeyVars
    \/ \E k \in Keys : KeyIdle /\ Destroy(k) /\ UNCHANGED notKeyVars
    \/ \E k \in Keys : KeyIdle /\ CallClose(k) /\ UNCHANGED notKeyVars
    \/ \E k \in Keys : KeyIdle /\ Detach(k) /\ UNCHANGED notKeyVars
    \/ \E k \in Keys : \E h \in RawHandles : KeyIdle /\ Attach(k, h) /\ UNCHANGED notKeyVars
    \/ \E k \in Keys :
          /\ KeyIdle /\ IsValid(k) /\ closes[Get(k)] < MaxCloses
          /\ Attach(k, Get(k)) /\ UNCHANGED notKeyVars
    \/ \E k, other \in Keys : KeyIdle /\ Swap(k, other) /\ UNCHANGED notKeyVars

-----------------------------------------------------------------------------
(* Functions on keys (WinReg.cpp): OpenKey, CreateKey, DeleteKey,            *)
(* EnumerateSubKeyNames, EnumerateValueNames, LoadKey, SaveKey and           *)
(* ConnectRegistry.  The registry is seen through the test key of            *)
(* WinRegTest.cpp: a key holds a set of subkeys and a list of named values,  *)
(* which it enumerates in an order of its own (here: the order of            *)
(* ValueOrder and SubKeyOrder).  inj is the status the registry is made      *)
(* to return (ERROR_SUCCESS: none).                                          *)

ERROR_NO_MORE_ITEMS == 259

testKeyName == "SOFTWARE\\GioRegTests"

\* The names and the values main() writes, in the order it writes them
ValueOrder == << "TestValue_DWORD", "TestValue_SZ", "TestValue_EXPAND_SZ",
                 "TestValue_MULTI_SZ", "TestValue_BINARY" >>
ValueNames == {ValueOrder[i] : i \in 1..Len(ValueOrder)}

SubKeyOrder == << "Sub", "SubKey" >>
SubKeyNames == {SubKeyOrder[i] : i \in 1..Len(SubKeyOrder)}

\* Length of a name in wchar_ts, without the terminating NUL
NameLength(n) ==
    CASE n = "TestValue_DWORD"     -> 15
      [] n = "TestValue_SZ"        -> 12
      [] n = "TestValue_EXPAND_SZ" -> 19
      [] n = "TestValue_MULTI_SZ"  -> 18
      [] n = "TestValue_BINARY"    -> 16
      [] n = "Sub"                 -> 3
      [] n = "SubKey"              -> 6

\* The value main() writes under name n: 0x64, L"Hello World", L"%WinDir%",
\* { L"Ciao", L"Hi", L"Connie" }, { 0x22, 0x33, 0x44 }
TestValueOf(n) ==
    CASE n = "TestValue_DWORD"     -> MakeValue(REG_DWORD, 100)
      [] n = "TestValue_SZ"        ->
             MakeValue(REG_SZ, << 72, 101, 108, 108, 111, 32, 87, 111, 114, 108, 100 >>)
      [] n = "TestValue_EXPAND_SZ" ->
             MakeValue(REG_EXPAND_SZ, << 37, 87, 105, 110, 68, 105, 114, 37 >>)
      [] n = "TestValue_MULTI_SZ"  -> MakeValue(REG_MULTI_SZ, << Ciao, Hi, Connie >>)
      [] n = "TestValue_BINARY"    -> MakeValue(REG_BINARY, << 34, 51, 68 >>)

RECURSIVE MaxNameLength(_)
MaxNameLength(names) ==
    IF names = << >> THEN 0
    ELSE LET rest == MaxNameLength(Tail(names))
         IN  IF NameLength(Head(names)) > rest THEN NameLength(Head(names)) ELSE rest

\* One call of the registry API on a key, and the status it returned
KeyCall(api, index, status) == [api |-> api, index |-> index, status |-> status]

\* ::RegOpenKeyEx(hKey, subKey, ...), children being the subkeys of hKey
RegOpenKeyEx(children, subKey, inj) ==
    IF inj # ERROR_SUCCESS
    THEN [result |-> inj, opened |-> FALSE]
    ELSE IF subKey \notin children
    THEN [result |-> ERROR_FILE_NOT_FOUND, opened |-> FALSE]
    ELSE [result |-> ERROR_SUCCESS, opened |-> TRUE]

\* ::RegCreateKeyEx(hKey, subKey, ...): opens the key, creating it if it is not there
RegCreateKeyEx(children, subKey, inj) ==
    IF inj # ERROR_SUCCESS
    THEN [result |-> inj, opened |-> FALSE, children |-> children]
    ELSE [result |-> ERROR_SUCCESS, opened |-> TRUE, children |-> children \cup {subKey}]

\* ::RegDeleteKeyEx(hKey, subKey, ...): the key to delete must have no subkeys
RegDeleteKeyEx(children, subKey, hasSubkeys, inj) ==
    IF inj # ERROR_SUCCESS
    THEN [result |-> inj, children |-> children]
    ELSE IF subKey \notin children
    THEN [result |-> ERROR_FILE_NOT_FOUND, children |-> children]
    ELSE IF hasSubkeys
    THEN [result |-> ERROR_ACCESS_DENIED, children |-> children]
    ELSE [result |-> ERROR_SUCCESS, children |-> children \ {subKey}]

\* ::RegQueryInfoKey(hKey, ...), names being the subkeys or the value names
\* of hKey: how many there are, and the length of the longest
RegQueryInfoKey(names, inj) ==
    IF inj # ERROR_SUCCESS
    THEN [result |-> inj, count |-> 0, maxLength |-> 0]
    ELSE [result |-> ERROR_SUCCESS, count |-> Len(names), maxLength |-> MaxNameLength(names)]

\* ::RegEnumKeyEx(hKey, index, buffer, &length, ...), length being the size
\* of the buffer in wchar_ts on entry and that of the name, without NUL, on return
RegEnumKeyEx(names, index, length, inj) ==
    IF inj # ERROR_SUCCESS
    THEN [result |-> inj, name |-> "", length |-> length]
    ELSE IF index >= Len(names)
    THEN [result |-> ERROR_NO_MORE_ITEMS, name |-> "", length |-> length]
    ELSE IF NameLength(names[index + 1]) + 1 > length
    THEN [result |-> ERROR_MORE_DATA, name |-> "", length |-> length]
    ELSE [result |-> ERROR_SUCCESS, name |-> names[index + 1],
          length |-> NameLength(names[index + 1])]

\* ::RegEnumValue(hKey, index, buffer, &length, ...): the same, on value names
RegEnumValue(names, index, length, inj) == RegEnumKeyEx(names, index, length, inj)

\* What a function on keys does: how it ends, the code of the exception,
\* whether a RegKey holding a handle is returned, the names returned, the
\* calls of the registry API it made and the subkeys it leaves
KeyDone(outcome, code, handle, names, calls, children) ==
    [outcome |-> outcome, code |-> code, handle |-> handle, names |-> names,
     calls |-> calls, children |-> children]

\* OpenKey without the test of the result of ::RegOpenKeyEx
OpenKeyUnchecked(children, subKeyName, inj) ==
    LET o == RegOpenKeyEx(children, subKeyName, inj)
        calls == << KeyCall("RegOpenKeyEx", 0, o.result) >>
    IN  KeyDone("ok", ERROR_SUCCESS, TRUE, << >>, calls, children)

OpenKey(children, subKeyName, inj) ==
    LET o == RegOpenKeyEx(children, subKeyName, inj)
        calls == << KeyCall("RegOpenKeyEx", 0, o.result) >>
    IN  IF o.result # ERROR_SUCCESS
        THEN KeyDone("RegException", o.result, FALSE, << >>, calls, children)
        ELSE KeyDone("ok", ERROR_SUCCESS, o.opened, << >>, calls, children)

\* CreateKey trying ::RegOpenKeyEx before ::RegCreateKeyEx
CreateKeyOpenFirst(children, subKeyName, inj) ==
    LET o == RegOpenKeyEx(children, subKeyName, inj)
        c == RegCreateKeyEx(children, subKeyName, inj)
        calls == << KeyCall("RegOpenKeyEx", 0, o.result), KeyCall("RegCreateKeyEx", 0, c.result) >>
    IN  IF o.result = ERROR_SUCCESS
        THEN KeyDone("ok", ERROR_SUCCESS, o.opened, << >>, SubSeq(calls, 1, 1), children)
        ELSE IF c.result # ERROR_SUCCESS
        THEN KeyDone("RegException", c.result, FALSE, << >>, calls, c.children)
        ELSE KeyDone("ok", ERROR_SUCCESS, c.opened, << >>, calls, c.children)

CreateKey(children, subKeyName, inj) ==
    LET c == RegCreateKeyEx(children, subKeyName, inj)
        calls == << KeyCall("RegCreateKeyEx", 0, c.result) >>
    IN  IF c.result # ERROR_SUCCESS
        THEN KeyDone("RegException", c.result, FALSE, << >>, calls, c.children)
        ELSE KeyDone("ok", ERROR_SUCCESS, c.opened, << >>, calls, c.children)

DeleteKey(children, subKey, hasSubkeys, inj) ==
    LET d == RegDeleteKeyEx(children, subKey, hasSubkeys, inj)
        calls == << KeyCall("RegDeleteKeyEx", 0, d.result) >>
    IN  IF d.result # ERROR_SUCCESS
        THEN KeyDone("RegException", d.result, FALSE, << >>, calls, d.children)
        ELSE KeyDone("ok", ERROR_SUCCESS, FALSE, << >>, calls, d.children)

\* ::RegLoadKey, ::RegSaveKey, ::RegConnectRegistry: hive files and remote
\* machines are outside the model, the call returns the status it is made to
LoadKey(inj) ==
    LET l == [result |-> inj]
        calls == << KeyCall("RegLoadKey", 0, l.result) >>
    IN  IF l.result # ERROR_SUCCESS
        THEN KeyDone("RegException", l.result, FALSE, << >>, calls, {})
        ELSE KeyDone("ok", ERROR_SUCCESS, FALSE, << >>, calls, {})

SaveKey(inj) ==
    LET s == [result |-> inj]
        calls == << KeyCall("RegSaveKey", 0, s.result) >>
    IN  IF s.result # ERROR_SUCCESS
        THEN KeyDone("RegException", s.result, FALSE, << >>, calls, {})
        ELSE KeyDone("ok", ERROR_SUCCESS, FALSE, << >>, calls, {})

ConnectRegistry(inj) ==
    LET c == [result |-> inj, opened |-> inj = ERROR_SUCCESS]
        calls == << KeyCall("RegConnectRegistry", 0, c.result) >>
    IN  IF c.result # ERROR_SUCCESS
        THEN KeyDone("RegException", c.result, FALSE, << >>, calls, {})
        ELSE KeyDone("ok", ERROR_SUCCESS, c.opened, << >>, calls, {})

\* The loop of EnumerateSubKeyNames: names are the subkeys at the time of
\* the loop, failAt the index at which the registry is made to fail
RECURSIVE SubKeyLoop(_, _, _, _, _, _, _, _)
SubKeyLoop(b, names, subkeyCount, bufferSize, subkeyIndex, failAt, subkeyNames, calls) ==
    IF subkeyIndex >= subkeyCount
    THEN KeyDone("ok", ERROR_SUCCESS, FALSE, subkeyNames, calls, {})
    ELSE LET cast == SafeSizeToDwordCast(b, bufferSize)
             e == RegEnumKeyEx(names, subkeyIndex, cast.dword,
                               IF subkeyIndex = failAt THEN ERROR_ACCESS_DENIED
                                                       ELSE ERROR_SUCCESS)
             called == Append(calls, KeyCall("RegEnumKeyEx", subkeyIndex, e.result))
         IN  IF cast.thrown # "none"
             THEN KeyDone(cast.thrown, 0, FALSE, << >>, calls, {})
             ELSE IF e.result # ERROR_SUCCESS
             THEN KeyDone("RegException", e.result, FALSE, << >>, called, {})
             ELSE SubKeyLoop(b, names, subkeyCount, bufferSize, (subkeyIndex + 1) % 2^DwordBits,
                             failAt, Append(subkeyNames, e.name), called)

\* before: the subkeys when ::RegQueryInfoKey is called; during: when the loop runs
EnumerateSubKeyNames(b, before, during, inj, failAt) ==
    LET info == RegQueryInfoKey(before, inj)
        calls == << KeyCall("RegQueryInfoKey", 0, info.result) >>
    IN  IF info.result # ERROR_SUCCESS
        THEN KeyDone("RegException", info.result, FALSE, << >>, calls, {})
        ELSE SubKeyLoop(b, during, info.count, (info.maxLength + 1) % 2^DwordBits, 0,
                        failAt, << >>, calls)

\* The loop of EnumerateValueNames, each name put in front of those fetched before
RECURSIVE ValueLoopPrepending(_, _, _, _, _, _, _, _)
ValueLoopPrepending(b, names, valueCount, bufferSize, valueIndex, failAt, valueNames, calls) ==
    IF valueIndex >= valueCount
    THEN KeyDone("ok", ERROR_SUCCESS, FALSE, valueNames, calls, {})
    ELSE LET cast == SafeSizeToDwordCast(b, bufferSize)
             e == RegEnumValue(names, valueIndex, cast.dword,
                               IF valueIndex = failAt THEN ERROR_ACCESS_DENIED
                                                      ELSE ERROR_SUCCESS)
             called == Append(calls, KeyCall("RegEnumValue", valueIndex, e.result))
         IN  IF cast.thrown # "none"
             THEN KeyDone(cast.thrown, 0, FALSE, << >>, calls, {})
             ELSE IF e.result # ERROR_SUCCESS
             THEN KeyDone("RegException", e.result, FALSE, << >>, called, {})
             ELSE ValueLoopPrepending(b, names, valueCount, bufferSize,
                                      (valueIndex + 1) % 2^DwordBits,
                                      failAt, << e.name >> \o valueNames, called)

\* The loop of EnumerateValueNames
RECURSIVE ValueLoop(_, _, _, _, _, _, _, _)
ValueLoop(b, names, valueCount, bufferSize, valueIndex, failAt, valueNames, calls) ==
    IF valueIndex >= valueCount
    THEN KeyDone("ok", ERROR_SUCCESS, FALSE, valueNames, calls, {})
    ELSE LET cast == SafeSizeToDwordCast(b, bufferSize)
             e == RegEnumValue(names, valueIndex, cast.dword,
                               IF valueIndex = failAt THEN ERROR_ACCESS_DENIED
                                                      ELSE ERROR_SUCCESS)
             called == Append(calls, KeyCall("RegEnumValue", valueIndex, e.result))
         IN  IF cast.thrown # "none"
             THEN KeyDone(cast.thrown, 0, FALSE, << >>, calls, {})
             ELSE IF e.result # ERROR_SUCCESS
             THEN KeyDone("RegException", e.result, FALSE, << >>, called, {})
             ELSE ValueLoop(b, names, valueCount, bufferSize, (valueIndex + 1) % 2^DwordBits,
                            failAt, Append(valueNames, e.name), called)

EnumerateValueNames(b, before, during, inj, failAt) ==
    LET info == RegQueryInfoKey(before, inj)
        calls == << KeyCall("RegQueryInfoKey", 0, info.result) >>
    IN  IF info.result # ERROR_SUCCESS
        THEN KeyDone("RegException", info.result, FALSE, << >>, calls, {})
        ELSE ValueLoop(b, during, info.count, (info.maxLength + 1) % 2^DwordBits, 0,
                       failAt, << >>, calls)

-----------------------------------------------------------------------------
(* The program of WinRegTest.cpp, its calls in any order: it creates, opens *)
(* and deletes the test key, writes, reads, enumerates and deletes its      *)
(* values and subkeys.                                                       *)

NoValues == [n \in ValueNames |-> NoEntry]

\* The names of the values of vs, in the order of the registry
PresentValues(vs) == SelectSeq(ValueOrder, LAMBDA n : vs[n].present)

\* count: how many subkeys or values the key had when an enumeration started;
\* inj: the registry was made to fail; raced: another program changed the key
FresNone ==
    [op |-> "none", name |-> "", outcome |-> "none", code |-> ERROR_SUCCESS,
     handle |-> FALSE, names |-> << >>, value |-> RegValueDefault, calls |-> << >>,
     raced |-> FALSE, count |-> 0, inj |-> FALSE]

\* The result of a function on keys, as the caller sees it
FresOf(op, name, r, raced, inj) ==
    [op |-> op, name |-> name, outcome |-> r.outcome, code |-> r.code,
     handle |-> r.handle, names |-> r.names, value |-> RegValueDefault,
     calls |-> r.calls, raced |-> raced, count |-> 0, inj |-> inj]

NodeInit ==
    /\ exists = FALSE
    /\ subkeys = {}
    /\ values = NoValues
    /\ hkey = "none"
    /\ fres = FresNone

NodeIdle == fres.op = "none"

\* winreg::RegKey key = winreg::CreateKey(HKEY_CURRENT_USER, testKeyName)
NodeCreateKey(inj) ==
    /\ NodeIdle
    /\ hkey = "none"
    /\ \E r \in {CreateKey(IF exists THEN {testKeyName} ELSE {}, testKeyName, inj)} :
        /\ exists' = (testKeyName \in r.children)
        /\ hkey' = IF r.handle THEN "open" ELSE hkey
        /\ fres' = FresOf("CreateKey", testKeyName, r, FALSE, inj # ERROR_SUCCESS)
    /\ UNCHANGED << subkeys, values >>

\* winreg::RegKey key = winreg::OpenKey(HKEY_CURRENT_USER, testKeyName, KEY_READ)
NodeOpenKey(inj) ==
    /\ NodeIdle
    /\ hkey = "none"
    /\ \E r \in {OpenKey(IF exists THEN {testKeyName} ELSE {}, testKeyName, inj)} :
        /\ hkey' = IF r.handle THEN "open" ELSE hkey
        /\ fres' = FresOf("OpenKey", testKeyName, r, FALSE, inj # ERROR_SUCCESS)
    /\ UNCHANGED << exists, subkeys, values >>

\* key.Close(), or key going out of scope
NodeCloseKey ==
    /\ NodeIdle
    /\ hkey # "none"
    /\ hkey' = "none"
    /\ UNCHANGED << exists, subkeys, values, fres >>

\* winreg::DeleteKey(HKEY_CURRENT_USER, testKeyName): the values go with the
\* key, and a handle still open on it does not give access to a key
\* created anew under the same name
NodeDeleteKey(inj) ==
    /\ NodeIdle
    /\ \E r \in {DeleteKey(IF exists THEN {testKeyName} ELSE {}, testKeyName, subkeys # {}, inj)} :
        /\ exists' = (testKeyName \in r.children)
        /\ values' = IF r.outcome = "ok" THEN NoValues ELSE values
        /\ hkey' = IF r.outcome = "ok" /\ hkey = "open" THEN "stale" ELSE hkey
        /\ fres' = FresOf("DeleteKey", testKeyName, r, FALSE, inj # ERROR_SUCCESS)
    /\ UNCHANGED subkeys

\* winreg::CreateKey(key.Get(), s): the RegKey returned is a temporary
NodeCreateSubKey(s, inj) ==
    /\ NodeIdle
    /\ hkey = "open"
    /\ \E r \in {CreateKey(subkeys, s, inj)} :
        /\ subkeys' = r.children
        /\ fres' = FresOf("CreateKey", s, r, FALSE, inj # ERROR_SUCCESS)
    /\ UNCHANGED << exists, values, hkey >>

\* winreg::DeleteKey(key.Get(), s)
NodeDeleteSubKey(s, inj) ==
    /\ NodeIdle
    /\ hkey = "open"
    /\ \E r \in {DeleteKey(subkeys, s, FALSE, inj)} :
        /\ subkeys' = r.children
        /\ fres' = FresOf("DeleteKey", s, r, FALSE, inj # ERROR_SUCCESS)
    /\ UNCHANGED << exists, values, hkey >>

\* winreg::EnumerateSubKeyNames(key.Get()); with race = TRUE, another program
\* creates or deletes subkey t between the call of ::RegQueryInfoKey, when
\* it succeeds, and the loop
NodeEnumerateSubKeyNames(inj, failAt, race, t) ==
    /\ NodeIdle
    /\ hkey = "open"
    /\ \E during \in {IF ~race THEN subkeys
                       ELSE IF t \in subkeys THEN subkeys \ {t} ELSE subkeys \cup {t}} :
       \E r \in {EnumerateSubKeyNames(build,
                      SelectSeq(SubKeyOrder, LAMBDA s : s \in subkeys),
                      SelectSeq(SubKeyOrder, LAMBDA s : s \in during), inj, failAt)} :
        /\ subkeys' = IF race /\ r.calls[1].status = ERROR_SUCCESS THEN during ELSE subkeys
        /\ fres' = [FresOf("EnumerateSubKeyNames", "", r,
                           race /\ r.calls[1].status = ERROR_SUCCESS,
                           inj # ERROR_SUCCESS \/ failAt < Cardinality(subkeys))
                       EXCEPT !.count = Cardinality(subkeys)]
    /\ UNCHANGED << exists, values, hkey >>

\* winreg::EnumerateValueNames(key.Get()), likewise: the other program
\* deletes value t, or writes it as main() does
NodeEnumerateValueNames(inj, failAt, race, t) ==
    /\ NodeIdle
    /\ hkey = "open"
    /\ \E during \in {IF ~race THEN values
                       ELSE IF values[t].present THEN [values EXCEPT ![t] = NoEntry]
                       ELSE SetValue(build, values, t, TestValueOf(t),
                                     ERROR_SUCCESS, "crash").store} :
       \E r \in {EnumerateValueNames(build, PresentValues(values),
                                     PresentValues(during), inj, failAt)} :
        /\ values' = IF race /\ r.calls[1].status = ERROR_SUCCESS THEN during ELSE values
        /\ fres' = [FresOf("EnumerateValueNames", "", r,
                           race /\ r.calls[1].status = ERROR_SUCCESS,
                           inj # ERROR_SUCCESS \/ failAt < Len(PresentValues(values)))
                       EXCEPT !.count = Len(PresentValues(values))]
    /\ UNCHANGED << exists, subkeys, hkey >>

\* The calls of a function on values, with the status the registry returned
\* to each: statuses[i] is the status of the i-th call
ValueCalls(calls, statuses) ==
    [i \in 1..Len(calls) |-> KeyCall(calls[i].api, 0, statuses[i])]

\* winreg::SetValue(key.Get(), n, value)
NodeSetValue(n, value, inj, ub) ==
    /\ NodeIdle
    /\ hkey = "open"
    /\ FitsAddressSpace(build, value)
    /\ \E r \in {SetValue(build, values, n, value, inj, ub)} :
        /\ values' = r.store
        /\ fres' = [FresNone EXCEPT
                      !.op = "SetValue", !.name = n, !.outcome = r.outcome, !.code = r.code,
                      !.calls = ValueCalls(r.calls, << inj >>), !.inj = inj # ERROR_SUCCESS]
    /\ UNCHANGED << exists, subkeys, hkey >>

\* winreg::RegValue value = winreg::QueryValue(key.Get(), n)
NodeQueryValue(n, inj1, inj2, ub) ==
    /\ NodeIdle
    /\ hkey = "open"
    /\ \E r \in {QueryValue(build, values, values, n, inj1, inj2, ub)} :
        /\ fres' = [FresNone EXCEPT
                      !.op = "QueryValue", !.name = n, !.outcome = r.outcome, !.code = r.code,
                      !.value = r.value,
                      !.calls = ValueCalls(r.calls,
                          << RegQueryValueEx(values, n, FALSE, 0, inj1).result,
                             IF Len(r.calls) > 1
                             THEN RegQueryValueEx(values, n, TRUE, r.calls[2].cbData, inj2).result
                             ELSE ERROR_SUCCESS >>),
                      !.inj = (inj1 # ERROR_SUCCESS \/ inj2 # ERROR_SUCCESS)]
    /\ UNCHANGED << exists, subkeys, values, hkey >>

\* winreg::DeleteValue(key.Get(), n)
NodeDeleteValue(n, inj) ==
    /\ NodeIdle
    /\ hkey = "open"
    /\ \E r \in {DeleteValue(values, n, inj)} :
        /\ values' = r.store
        /\ fres' = [FresNone EXCEPT
                      !.op = "DeleteValue", !.name = n, !.outcome = r.outcome, !.code = r.code,
                      !.calls = ValueCalls(r.calls, << RegDeleteValue(values, n, inj).result >>),
                      !.inj = inj # ERROR_SUCCESS]
    /\ UNCHANGED << exists, subkeys, hkey >>

\* winreg::LoadKey(HKEY_USERS, subKey, filename)
NodeLoadKey(inj) ==
    /\ NodeIdle
    /\ fres' = FresOf("LoadKey", "", LoadKey(inj), FALSE,
                   inj # ERROR_SUCCESS)
    /\ UNCHANGED << exists, subkeys, values, hkey >>

\* winreg::SaveKey(key.Get(), filename, nullptr)
NodeSaveKey(inj) ==
    /\ NodeIdle
    /\ hkey = "open"
    /\ fres' = FresOf("SaveKey", "", SaveKey(inj), FALSE,
                   inj # ERROR_SUCCESS)
    /\ UNCHANGED << exists, subkeys, values, hkey >>

\* winreg::ConnectRegistry(machineName, HKEY_LOCAL_MACHINE): the RegKey
\* returned is a temporary
NodeConnectRegistry(inj) ==
    /\ NodeIdle
    /\ fres' = FresOf("ConnectRegistry", "", ConnectRegistry(inj), FALSE,
                   inj # ERROR_SUCCESS)
    /\ UNCHANGED << exists, subkeys, values, hkey >>

\* The caller takes the result of the call
NodeReturn ==
    /\ ~NodeIdle
    /\ fres' = FresNone
    /\ UNCHANGED << exists, subkeys, values, hkey >>

NodeNext ==
    \/ \E inj \in Injected : NodeCreateKey(inj) /\ UNCHANGED notNodeVars
    \/ \E inj \in Injected : NodeOpenKey(inj) /\ UNCHANGED notNodeVars
    \/ NodeCloseKey /\ UNCHANGED notNodeVars
    \/ \E inj \in Injected : NodeDeleteKey(inj) /\ UNCHANGED notNodeVars
    \/ \E s \in SubKeyNames, inj \in Injected : NodeCreateSubKey(s, inj) /\ UNCHANGED notNodeVars
    \/ \E s \in SubKeyNames, inj \in Injected : NodeDeleteSubKey(s, inj) /\ UNCHANGED notNodeVars
    \/ \E inj \in Injected, failAt \in 0..Len(SubKeyOrder), race \in BOOLEAN, t \in SubKeyNames :
          NodeEnumerateSubKeyNames(inj, failAt, race, t) /\ UNCHANGED notNodeVars
    \/ \E inj \in Injected, failAt \in 0..Len(ValueOrder), race \in BOOLEAN, t \in ValueNames :
          NodeEnumerateValueNames(inj, failAt, race, t) /\ UNCHANGED notNodeVars
    \/ \E n \in ValueNames, inj \in Injected, ub \in UBChoices :
          \E value \in {TestValueOf(n), RegValueDefault} :
              NodeSetValue(n, value, inj, ub) /\ UNCHANGED notNodeVars
    \/ \E n \in ValueNames, inj1, inj2 \in Injected, ub \in UBChoices :
          NodeQueryValue(n, inj1, inj2, ub) /\ UNCHANGED notNodeVars
    \/ \E n \in ValueNames, inj \in Injected : NodeDeleteValue(n, inj) /\ UNCHANGED notNodeVars
    \/ \E inj \in Injected : NodeLoadKey(inj) /\ UNCHANGED notNodeVars
    \/ \E inj \in Injected : NodeSaveKey(inj) /\ UNCHANGED notNodeVars
    \/ \E inj \in Injected : NodeConnectRegistry(inj) /\ UNCHANGED notNodeVars
    \/ NodeReturn /\ UNCHANGED notNodeVars

-----------------------------------------------------------------------------
(* Specifications *)

Init ==
    /\ build \in Builds
    /\ ValueInit
    /\ RegInit
    /\ KeyInit
    /\ NodeInit

\* The program working on a RegValue
SpecValue == Init /\ [][ValueNext]_vars

\* The same, the program keeping references to the members
SpecValueRef == Init /\ [][RefNext]_vars

\* The program and other programs working on the values of a key
SpecReg == Init /\ [][RegNext]_vars

\* The program working on RegKey objects
SpecKey == Init /\ [][KeyNext]_vars

\* The program working on the test key
SpecNode == Init /\ [][NodeNext]_vars


-----------------------------------------------------------------------------
(* Properties of SetValue and QueryValue, checked under SpecReg *)

\* The entry the last call was about
TheEntry == store[res.name]

CallOf(op) == res.op = op /\ res.inj = ERROR_SUCCESS /\ ~res.raced

\* The text a RegValue of a text kind holds
TextOf(value) == IF GetType(value) = REG_SZ THEN value.m_string ELSE value.m_expandString

AllReadsInside == \A i \in res.reads : 0 <= i /\ i < res.bufLen

\* C1: SetValue of a UInt32, Text, ExpandableText or Blob value followed by
\* QueryValue of the same name, with no other write in between, returns a
\* value of the same kind with the same payload; SetValue itself returns
\* normally for every such value whose data fits the DWORD size.
C1_SetThenQueryReturnsTheValue ==
    /\ ( /\ CallOf("SetValue")
         /\ GetType(res.arg) \in {REG_DWORD, REG_SZ, REG_EXPAND_SZ, REG_BINARY}
         /\ TrueByteLength(res.arg) <= DWORD_MAX )
       => res.outcome = "ok"
    /\ ( /\ CallOf("QueryValue")
         /\ written[res.name].has
         /\ GetType(written[res.name].value) \in {REG_DWORD, REG_SZ, REG_EXPAND_SZ, REG_BINARY} )
       => /\ res.outcome = "ok"
          /\ res.value = written[res.name].value

\* C2 as written: SetValue of any TextList followed by QueryValue returns the
\* same strings in the same order.
C2_EveryListRoundTrips ==
    ( /\ CallOf("QueryValue")
      /\ written[res.name].has
      /\ GetType(written[res.name].value) = REG_MULTI_SZ )
    => /\ res.outcome = "ok"
       /\ res.value = written[res.name].value

NoEmptyNoZero(multiString) ==
    \A k \in 1..Len(multiString) :
        /\ multiString[k] # << >>
        /\ \A i \in 1..Len(multiString[k]) : multiString[k][i] # 0

\* The strings of a list before its first empty string
RECURSIVE BeforeFirstEmpty(_)
BeforeFirstEmpty(multiString) ==
    IF multiString = << >> \/ Head(multiString) = << >> THEN << >>
    ELSE << Head(multiString) >> \o BeforeFirstEmpty(Tail(multiString))

\* C2, amended: SetValue of a TextList whose strings are all non-empty and free
\* of zero units (the list of zero strings included) followed by QueryValue
\* returns the same strings in the same order; a list of zero-free strings that
\* holds an empty string comes back cut off before its first empty string.
C2_ListsOfNonEmptyStringsRoundTrip ==
    ( /\ CallOf("QueryValue")
      /\ written[res.name].has
      /\ GetType(written[res.name].value) = REG_MULTI_SZ )
    => LET multiString == written[res.name].value.m_multiString
       IN  /\ NoEmptyNoZero(multiString) =>
                 /\ res.outcome = "ok"
                 /\ res.value = written[res.name].value
           /\ NoEmptyNoZero(BeforeFirstEmpty(multiString)) =>
                 /\ res.outcome = "ok"
                 /\ GetType(res.value) = REG_MULTI_SZ
                 /\ res.value.m_multiString = BeforeFirstEmpty(multiString)

C2_Witness ==
    /\ CallOf("QueryValue")
    /\ written[res.name].has
    /\ written[res.name].value = MakeValue(REG_MULTI_SZ, << Ciao, Hi, Connie >>)
    /\ res.outcome = "ok"
    /\ res.value.m_multiString = << Ciao, Hi, Connie >>

\* C3: QueryValue of a Text or ExpandableText entry with zero bytes of data
\* returns the empty string and reads no index outside [0, unitCount).
C3_EmptyTextReadStaysInside ==
    ( /\ CallOf("QueryValue")
      /\ TheEntry.present
      /\ TheEntry.type \in {REG_SZ, REG_EXPAND_SZ}
      /\ Len(TheEntry.data) = 0 )
    => /\ res.outcome = "ok"
       /\ GetType(res.value) = TheEntry.type
       /\ TextOf(res.value) = << >>
       /\ AllReadsInside

\* C4: QueryValue of a TextList entry with zero bytes of data returns the list
\* of zero strings and reads no position outside the buffer it allocated.
C4_EmptyListReadStaysInside ==
    ( /\ CallOf("QueryValue")
      /\ TheEntry.present
      /\ TheEntry.type = REG_MULTI_SZ
      /\ Len(TheEntry.data) = 0 )
    => /\ res.outcome = "ok"
       /\ GetType(res.value) = REG_MULTI_SZ
       /\ res.value.m_multiString = << >>
       /\ AllReadsInside

\* The strings that end in a unit other than zero
EndsNonZero == {s \in RawUnits \cup StringInputs : s # << >> /\ s[Len(s)] # 0}

\* C5: for every string s that ends in a non-zero unit, a Text or
\* ExpandableText entry holding the units of s and one zero unit, and one
\* holding the units of s alone, both decode to s; of two trailing zero units
\* only one is stripped.
C5_TerminatedAndUnterminatedDecodeAlike ==
    ( /\ CallOf("QueryValue")
      /\ TheEntry.present
      /\ TheEntry.type \in {REG_SZ, REG_EXPAND_SZ} )
    => \A s \in EndsNonZero :
          /\ TheEntry.data \in {UnitsToBytes(s), UnitsToBytes(s \o << 0 >>)} =>
                /\ res.outcome = "ok"
                /\ GetType(res.value) = TheEntry.type
                /\ TextOf(res.value) = s
          /\ TheEntry.data = UnitsToBytes(s \o << 0, 0 >>) =>
                /\ res.outcome = "ok"
                /\ TextOf(res.value) = s \o << 0 >>

C5_Witness ==
    /\ CallOf("QueryValue")
    /\ TheEntry = Entry(REG_SZ, UnitsToBytes(<< 258, 258 >>))
    /\ res.outcome = "ok"
    /\ res.value.m_string = << 258, 258 >>


\* The unit SetValue must put at 1-based position p of the packed buffer of a
\* list: position p falls in string k at offset p - Start(k), the unit after a
\* string is zero, and so is the one after the last string.
StartOf(multiString, k) == SumLen1(SubSeq(multiString, 1, k - 1))

PackedUnitAt(multiString, p) ==
    IF \E k \in 1..Len(multiString) :
          p > StartOf(multiString, k) /\ p <= StartOf(multiString, k) + Len(multiString[k])
    THEN LET k == CHOOSE k \in 1..Len(multiString) :
                     p > StartOf(multiString, k)
                         /\ p <= StartOf(multiString, k) + Len(multiString[k])
         IN  multiString[k][p - StartOf(multiString, k)]
    ELSE 0

TheCall == res.calls[1]

\* The unit at 1-based position p of the bytes handed to the registry
CallUnitAt(p) == TheCall.data[2 * p - 1] + 256 * TheCall.data[2 * p]

\* C6: the buffer SetValue hands to the registry for a TextList of N strings is
\* every string's units followed by one zero unit, then one more zero unit:
\* sum(len + 1) + 1 units for N >= 1, two zero units for N = 0, and the declared
\* size is twice the number of units.
C6_ListBufferIsDoubleNulTerminated ==
    ( /\ res.op = "SetValue"
      /\ GetType(res.arg) = REG_MULTI_SZ
      /\ res.outcome \in {"ok", "RegException"} )
    => LET multiString == res.arg.m_multiString
           units == IF multiString = << >> THEN 2 ELSE SumLen1(multiString) + 1
       IN  /\ Len(res.calls) = 1
           /\ TheCall.api = "RegSetValueEx"
           /\ TheCall.type = REG_MULTI_SZ
           /\ TheCall.cbData = units * 2
           /\ Len(TheCall.data) = units * 2
           /\ \A p \in 1..units : CallUnitAt(p) = PackedUnitAt(multiString, p)

C6_Witness ==
    /\ res.op = "SetValue"
    /\ res.arg = MakeValue(REG_MULTI_SZ, << Ciao, Hi, Connie >>)
    /\ res.outcome = "ok"
    /\ TheCall.cbData = 32
    /\ TheEntry.data = UnitsToBytes(Ciao \o << 0 >> \o Hi \o << 0 >> \o Connie \o << 0, 0 >>)

\* C7: for a Text or ExpandableText value of n units SetValue hands the
\* registry the n units and one zero unit, declares (n + 1) * 2 bytes, and tags
\* them REG_SZ for Text and REG_EXPAND_SZ for ExpandableText.
C7_TextIsWrittenWithOneTerminator ==
    ( /\ res.op = "SetValue"
      /\ GetType(res.arg) \in {REG_SZ, REG_EXPAND_SZ}
      /\ res.outcome \in {"ok", "RegException"} )
    => LET str == TextOf(res.arg)
           n == Len(str)
       IN  /\ Len(res.calls) = 1
           /\ TheCall.api = "RegSetValueEx"
           /\ TheCall.type = GetType(res.arg)
           /\ TheCall.cbData = (n + 1) * 2
           /\ Len(TheCall.data) = (n + 1) * 2
           /\ \A p \in 1..n : CallUnitAt(p) = str[p]
           /\ CallUnitAt(n + 1) = 0

C7_Witness ==
    /\ res.op = "SetValue"
    /\ res.arg = MakeValue(REG_EXPAND_SZ, Ciao)
    /\ res.outcome = "ok"
    /\ TheEntry = Entry(REG_EXPAND_SZ, << 67, 0, 105, 0, 97, 0, 111, 0, 0, 0 >>)

\* C9: when the true byte length of the data SetValue is to write exceeds the
\* largest DWORD, SetValue fails with std::overflow_error and calls the
\* registry with no length at all; every length it does declare is the true one.
C9_OverflowIsRejectedNotWrapped ==
    ( /\ res.op = "SetValue"
      /\ GetType(res.arg) \in AccessorKinds )
    => /\ TrueByteLength(res.arg) > DWORD_MAX =>
             /\ res.outcome = "overflow_error"
             /\ res.calls = << >>
             /\ ~written[res.name].has \/ written[res.name].value # res.arg
       /\ \A i \in 1..Len(res.calls) :
             /\ res.calls[i].cbData = TrueByteLength(res.arg)
             /\ Len(res.calls[i].data) = TrueByteLength(res.arg)

C9_Witness ==
    /\ res.op = "SetValue"
    /\ GetType(res.arg) = REG_MULTI_SZ
    /\ TrueByteLength(res.arg) = DWORD_MAX + 1
    /\ res.outcome = "overflow_error"
    /\ res.calls = << >>


-----------------------------------------------------------------------------
(* Properties of RegValue, checked under SpecValue *)

\* The member each accessor kind stands for
MemberOf(kind) ==
    CASE kind = REG_DWORD     -> "m_dword"
      [] kind = REG_SZ        -> "m_string"
      [] kind = REG_EXPAND_SZ -> "m_expandString"
      [] kind = REG_MULTI_SZ  -> "m_multiString"
      [] kind = REG_BINARY    -> "m_binary"

AccessorCalled == acc.op \in {"read", "write", "push_back"}

-----------------------------------------------------------------------------
(* Properties of RegKey, checked under SpecKey *)

AllDestroyed == \A k \in Keys : life[k] # "live"

\* C10: over any sequence of RegKey operations every raw handle taken into
\* ownership is passed to ::RegCloseKey at most once; once no RegKey is alive
\* it has been closed exactly once, unless Detach returned it to the caller, in
\* which case no RegKey closed it.
C10_EveryOwnedHandleClosedOnce ==
    \A h \in Handles :
        /\ closes[h] <= 1
        /\ holder[h] = "caller" => closes[h] = 0
        /\ (AllDestroyed /\ holder[h] = "wrapper") => closes[h] = 1

MovedFrom ==
    /\ last.op \in {"RegKey(RegKey&&)", "operator="}
    /\ last.other # last.key

\* C11: after a move construction or a move assignment to a different object
\* the source has IsValid() false and Get() nullptr; Close() on a RegKey that
\* is not valid makes no ::RegCloseKey call and leaves it empty, and Close() on
\* any RegKey makes at most one call and leaves it empty: so Close() on a
\* moved-from RegKey calls nothing, and two Close() calls in a row make at
\* most one call.
C11_MovedFromIsEmptyAndCloseIsIdempotent ==
    /\ [](MovedFrom => (~IsValid(last.other) /\ Get(last.other) = nullptr))
    /\ [](last.op = "Close" => (Len(last.closed) <= 1 /\ ~IsValid(last.key)))
    /\ [][\A k \in Keys :
            (last'.op = "Close" /\ last'.key = k /\ ~IsValid(k))
            => (last'.closed = << >> /\ closes' = closes /\ m_hKey'[k] = nullptr)]_vars

C11_Witness ==
    /\ last.op = "operator="
    /\ last.other # last.key
    /\ IsValid(last.key)
    /\ last.closed # << >>
    /\ ~IsValid(last.other)

\* C12: no raw handle other than nullptr is held by two RegKey objects at the
\* same time.
C12_NoHandleHeldTwice ==
    \A j, k \in Keys :
        (j # k /\ Live(j) /\ Live(k) /\ IsValid(j)) => Get(j) # Get(k)

C12_Witness ==
    /\ last.op = "RegKey(RegKey&&)"
    /\ Live(last.other)
    /\ IsValid(last.key)
    /\ ~IsValid(last.other)
    /\ holder[Get(last.key)] = "wrapper"

\* C13: in every reachable state a RegKey with IsValid() true holds a handle
\* that has not been passed to ::RegCloseKey, also after Attach, Attach(Get())
\* included.
C13_ValidKeyHoldsOpenHandle ==
    \A k \in Keys : (Live(k) /\ IsValid(k)) => closes[Get(k)] = 0

-----------------------------------------------------------------------------
(* Further properties of RegValue, checked under SpecValue *)

AllSlotsDefault(v) ==
    /\ v.m_dword = 0
    /\ v.m_string = << >>
    /\ v.m_expandString = << >>
    /\ v.m_multiString = << >>
    /\ v.m_binary = << >>

\* C14: Reset(kind) does not fail and, from any RegValue state, leaves
\* GetType() == kind and every payload member at its default; IsEmpty() is
\* true exactly when GetType() is REG_NONE, so Reset() yields an empty value.
C14_ResetClearsAndSetsKind ==
    /\ IsEmpty(val) <=> GetType(val) = REG_NONE
    /\ acc.op = "Reset" =>
          /\ acc.thrown = "none"
          /\ GetType(val) = acc.kind
          /\ AllSlotsDefault(val)
          /\ acc.kind = REG_NONE => IsEmpty(val)

C14_Witness ==
    /\ acc.op = "Reset"
    /\ acc.kind = REG_NONE
    /\ GetType(acc.before) = REG_MULTI_SZ
    /\ acc.before.m_multiString # << >>
    /\ IsEmpty(val)
    /\ AllSlotsDefault(val)

-----------------------------------------------------------------------------
(* Properties of RegValue whose members the program keeps references to,       *)
(* checked under SpecValueRef                                                  *)

Selected(v) == IF GetType(v) \in AccessorKinds THEN MemberOf(GetType(v)) ELSE "none"

OtherSlotsDefault(v) ==
    \A f \in {"m_dword", "m_string", "m_expandString", "m_multiString", "m_binary"} :
        f # Selected(v) => v[f] = RegValueDefault[f]

\* C15 as written: in every RegValue state reached by construction, Reset and
\* writes through what the typed accessors returned, every payload member
\* other than the one the kind selects holds its default.
C15_OtherSlotsAlwaysDefault == OtherSlotsDefault(val)

\* C15, amended: as long as the program has not written through a reference
\* that an accessor returned before the latest Reset, every payload member
\* other than the one the kind selects holds its default; and right after a
\* change of kind by Reset nothing written before is left in any member.
C15_OtherSlotsDefaultUnlessStaleReference ==
    /\ ~ref.usedStale => OtherSlotsDefault(val)
    /\ acc.op = "Reset" => AllSlotsDefault(val)

C15_Witness ==
    /\ acc.op = "write through reference"
    /\ ~ref.usedStale
    /\ ref.slot = "m_string"
    /\ GetType(val) = REG_SZ
    /\ val.m_string # << >>
    /\ acc.before.m_string # << >>
    /\ OtherSlotsDefault(val)

-----------------------------------------------------------------------------
(* Further properties of SetValue, QueryValue and DeleteValue, checked under   *)
(* SpecReg                                                                     *)

Supported == {REG_BINARY, REG_DWORD, REG_SZ, REG_EXPAND_SZ, REG_MULTI_SZ}

\* C16: QueryValue of an entry whose type is none of the five supported ones,
\* and SetValue of a RegValue whose type is none of them (REG_NONE included),
\* throw std::invalid_argument, not RegException; SetValue then makes no
\* ::RegSetValueEx call and leaves the registry as it was.
C16_UnsupportedKindIsInvalidArgument ==
    /\ []( ( /\ CallOf("QueryValue")
             /\ TheEntry.present
             /\ TheEntry.type \notin Supported )
           => ( /\ res.outcome = "invalid_argument"
                /\ res.value = RegValueDefault ) )
    /\ []( (res.op = "SetValue" /\ GetType(res.arg) \notin Supported)
           => (res.outcome = "invalid_argument" /\ res.calls = << >>) )
    /\ [][ (res'.op = "SetValue" /\ res.op = "none" /\ GetType(res'.arg) \notin Supported)
           => store' = store ]_vars

C16_Witness ==
    /\ res.op = "SetValue"
    /\ GetType(res.arg) = REG_NONE
    /\ res.outcome = "invalid_argument"
    /\ TheEntry.present
    /\ TheEntry.type = REG_SZ

-----------------------------------------------------------------------------
(* Properties of the functions on the test key (SpecNode) *)

\* The calls of the registry API the last function made that returned a
\* status other than ERROR_SUCCESS
FailedCalls == {i \in 1..Len(fres.calls) : fres.calls[i].status # ERROR_SUCCESS}

\* C17: whenever a call of the registry API made by OpenKey, CreateKey,
\* ConnectRegistry, EnumerateSubKeyNames, EnumerateValueNames, QueryValue,
\* SetValue, DeleteValue, DeleteKey, LoadKey or SaveKey returns a status
\* other than ERROR_SUCCESS, that call is the last one the function makes,
\* the function ends with a RegException whose code is that status, and it
\* returns no RegValue, no names and no RegKey holding a handle.
C17_FailedCallEndsInRegException ==
    \A i \in FailedCalls :
        /\ i = Len(fres.calls)
        /\ fres.outcome = "RegException"
        /\ fres.code = fres.calls[i].status
        /\ ~fres.handle
        /\ fres.names = << >>
        /\ fres.value = RegValueDefault

\* A fetch of EnumerateValueNames fails after two names were fetched
C17_Witness ==
    /\ fres.op = "EnumerateValueNames"
    /\ Len(fres.calls) = 4
    /\ FailedCalls = {4}
    /\ fres.outcome = "RegException"

\* The last call was an enumeration, and what the key holds after it, in
\* the order of the registry
Enumerated == fres.op \in {"EnumerateSubKeyNames", "EnumerateValueNames"}
EnumApi == IF fres.op = "EnumerateSubKeyNames" THEN "RegEnumKeyEx" ELSE "RegEnumValue"
HeldNow ==
    IF fres.op = "EnumerateSubKeyNames"
    THEN SelectSeq(SubKeyOrder, LAMBDA s : s \in subkeys)
    ELSE PresentValues(values)

\* C18: EnumerateSubKeyNames and EnumerateValueNames first call
\* ::RegQueryInfoKey, then fetch one name per index 0, 1, ... in increasing
\* order; if every call succeeds, as many names are returned as the key held
\* when it was queried, the i-th being the name fetched at index i - 1; if
\* the query or a fetch fails, the enumeration ends with a RegException and
\* returns no name.
C18_EnumerationIsAllOrNothing ==
    Enumerated =>
        /\ Len(fres.calls) >= 1
        /\ fres.calls[1].api = "RegQueryInfoKey"
        /\ \A i \in 2..Len(fres.calls) :
              fres.calls[i].api = EnumApi /\ fres.calls[i].index = i - 2
        /\ IF FailedCalls = {}
           THEN /\ fres.outcome = "ok"
                /\ Len(fres.calls) = fres.count + 1
                /\ Len(fres.names) = fres.count
                /\ \A i \in 1..fres.count : fres.names[i] = HeldNow[i]
           ELSE /\ fres.outcome = "RegException"
                /\ fres.names = << >>

\* EnumerateValueNames returns three names or more though another program
\* changed the key after the query
C18_Witness ==
    /\ fres.op = "EnumerateValueNames"
    /\ fres.outcome = "ok"
    /\ fres.raced
    /\ Len(fres.names) >= 3

\* The registry was not made to fail and no other program changed the key
\* during the last call
Undisturbed == ~fres.inj /\ ~fres.raced

ValuesHeld == {n \in ValueNames : values[n].present}

\* What the calls of main() find and leave, each taken alone
ScenarioState ==
    Undisturbed =>
        /\ fres.op = "CreateKey" /\ fres.name = testKeyName =>
              fres.outcome = "ok" /\ fres.handle /\ exists
        /\ fres.op = "SetValue" /\ fres.outcome = "ok" =>
              /\ values[fres.name].present
              /\ values[fres.name].type = GetType(TestValueOf(fres.name))
        /\ fres.op = "EnumerateValueNames" =>
              /\ fres.outcome = "ok"
              /\ Len(fres.names) = Cardinality(ValuesHeld)
              /\ {fres.names[i] : i \in 1..Len(fres.names)} = ValuesHeld
        /\ fres.op = "QueryValue" =>
              IF values[fres.name].present
              THEN /\ fres.outcome = "ok"
                   /\ GetType(fres.value) = values[fres.name].type
                   /\ GetType(fres.value) = GetType(TestValueOf(fres.name))
              ELSE /\ fres.outcome = "RegException"
                   /\ fres.code = ERROR_FILE_NOT_FOUND
        /\ fres.op = "DeleteValue" /\ fres.outcome = "ok" => ~values[fres.name].present
        /\ fres.op = "DeleteKey" /\ fres.name = testKeyName /\ fres.outcome = "ok" => ~exists
        /\ fres.op = "OpenKey" =>
              IF exists
              THEN fres.outcome = "ok" /\ fres.handle
              ELSE fres.outcome = "RegException" /\ ~fres.handle

\* C19: on a key made by CreateKey, SetValue of the five values of main()
\* leaves five entries of the kinds written; EnumerateValueNames returns
\* exactly the names of the entries the key holds (five after the five
\* SetValue calls) and QueryValue of each returns a value of the kind
\* written; DeleteValue removes the entry it names and leaves every other
\* entry as it was, after which QueryValue of that name ends with a
\* RegException whose code is ERROR_FILE_NOT_FOUND; after DeleteKey of the
\* key, OpenKey of it ends with a RegException.
C19_TestProgramScenario ==
    /\ []ScenarioState
    /\ [][fres.op = "none" /\ fres'.op = "DeleteValue" =>
             \A m \in ValueNames \ {fres'.name} : values'[m] = values[m]]_vars

\* The five values of main() are there, and EnumerateValueNames returns five names
C19_Witness ==
    /\ fres.op = "EnumerateValueNames"
    /\ Undisturbed
    /\ ValuesHeld = ValueNames
    /\ Len(fres.names) = 5

\* C20 as stated: each call of OpenKey, CreateKey, QueryValue, SetValue,
\* DeleteValue and DeleteKey makes exactly one call of the registry API,
\* whether it succeeds or fails.
C20_ExactlyOneCallPerInvocation ==
    fres.op \in {"OpenKey", "CreateKey", "QueryValue", "SetValue", "DeleteValue", "DeleteKey"} =>
        Len(fres.calls) = 1

\* C20, amended: OpenKey, CreateKey, DeleteValue and DeleteKey make exactly
\* one call of the registry API, whether they succeed or fail.  SetValue
\* makes one call of ::RegSetValueEx, and none when it rejects the value
\* before the call.  QueryValue calls ::RegQueryValueEx once when that call
\* fails or reports a kind QueryValue does not support, and twice otherwise:
\* once for the kind and size, once for the data.
C20_CallsPerInvocation ==
    /\ fres.op \in {"OpenKey", "CreateKey", "DeleteValue", "DeleteKey"} => Len(fres.calls) = 1
    /\ fres.op = "SetValue" =>
          /\ \A i \in 1..Len(fres.calls) : fres.calls[i].api = "RegSetValueEx"
          /\ Len(fres.calls) = IF fres.outcome \in {"ok", "RegException"} THEN 1 ELSE 0
    /\ fres.op = "QueryValue" =>
          /\ Len(fres.calls) >= 1
          /\ \A i \in 1..Len(fres.calls) : fres.calls[i].api = "RegQueryValueEx"
          /\ Len(fres.calls) = IF \/ fres.calls[1].status # ERROR_SUCCESS
                                  \/ fres.outcome = "invalid_argument"
                               THEN 1 ELSE 2

\* QueryValue returns a value after two calls of ::RegQueryValueEx
C20_Witness ==
    /\ fres.op = "QueryValue"
    /\ fres.outcome = "ok"
    /\ Len(fres.calls) = 2
    /\ FailedCalls = {}

-----------------------------------------------------------------------------
(* Properties of the decoder of REG_MULTI_SZ entries (SpecReg) *)

\* The wchar_ts the data of the entry under the name of the last call holds
EntryUnits == FillUnits(Len(TheEntry.data) \div SizeofWchar, TheEntry.data)

\* QueryValue was called on a REG_MULTI_SZ entry and the registry answered
ListEntryRead ==
    /\ CallOf("QueryValue")
    /\ TheEntry.present
    /\ TheEntry.type = REG_MULTI_SZ

EndsInTwoZeros(us) == Len(us) >= 2 /\ us[Len(us) - 1] = 0 /\ us[Len(us)] = 0

\* The zero-terminated strings units us hold, in order
RECURSIVE ZeroTerminated(_)
ZeroTerminated(us) ==
    LET zeros == {j \in 1..Len(us) : us[j] = 0}
    IN  IF zeros = {} THEN << >>
        ELSE LET z == CHOOSE j \in zeros : \A k \in zeros : j <= k
             IN  << SubSeq(us, 1, z - 1) >> \o ZeroTerminated(SubSeq(us, z + 1, Len(us)))

\* C21: QueryValue of a REG_MULTI_SZ entry whose data ends in two zero units
\* returns exactly the zero-terminated strings that come before the first
\* string of length zero, in the order of the data, and nothing that follows
\* it; data of two zero units alone gives the list of zero strings; no
\* string returned is empty or holds a zero unit.
C21_DecoderStopsAtFirstEmptyString ==
    (ListEntryRead /\ Len(TheEntry.data) % SizeofWchar = 0 /\ EndsInTwoZeros(EntryUnits)) =>
        /\ res.outcome = "ok"
        /\ GetType(res.value) = REG_MULTI_SZ
        /\ res.value.m_multiString = BeforeFirstEmpty(ZeroTerminated(EntryUnits))
        /\ NoEmptyNoZero(res.value.m_multiString)
        /\ EntryUnits = << 0, 0 >> => res.value.m_multiString = << >>

\* The data holds a string after its first empty string, which is not returned
C21_Witness ==
    /\ ListEntryRead
    /\ EndsInTwoZeros(EntryUnits)
    /\ res.outcome = "ok"
    /\ Len(res.value.m_multiString) >= 1
    /\ Len(ZeroTerminated(EntryUnits)) > Len(res.value.m_multiString) + 1
    /\ \E k \in 1..Len(ZeroTerminated(EntryUnits)) :
           k > Len(res.value.m_multiString) + 1 /\ ZeroTerminated(EntryUnits)[k] # << >>

\* C23: QueryValue of a REG_MULTI_SZ entry of one byte or more, whether its
\* data ends in two zero units or not, ends its scan, and every position the
\* scan reads lies inside the buffer of valueSize wchar_ts it allocated.
C23_ListScanStaysInsideBuffer ==
    (ListEntryRead /\ Len(TheEntry.data) > 0) =>
        /\ res.outcome = "ok"
        /\ AllReadsInside

-----------------------------------------------------------------------------
(* QueryValue while another program writes (SpecReg) *)

\* The value of the last call is what QueryValue returns for entry e when
\* nobody writes during the call
ReturnedFor(e) ==
    \E ub \in UBChoices :
        LET st == [store EXCEPT ![res.name] = e]
            r == QueryValue(build, st, st, res.name, ERROR_SUCCESS, ERROR_SUCCESS, ub)
        IN  r.outcome = "ok" /\ r.value = res.value

\* C22: when another program sets the entry anew between the two
\* ::RegQueryValueEx calls of QueryValue, QueryValue ends with a RegException
\* or returns the value the entry held before the write or the value it
\* holds after it: never the old kind with bytes of the new data, nor a
\* payload filled up to the old size.
C22_RacedQueryReturnsOldOrNew ==
    (res.op = "QueryValue" /\ res.raced) =>
        \/ res.outcome = "RegException"
        \/ res.outcome = "ok" /\ (ReturnedFor(res.old) \/ ReturnedFor(TheEntry))

=============================================================================
